---- MODULE Spec2Model ----
(***************************************************************************)
(* Transana: the ControlObject (src/ControlObjectClass.py), the mediator   *)
(* that owns the list of open transcript windows, the active transcript,   *)
(* the currently loaded Episode or Clip, the video selection and the       *)
(* presentation-mode window snapshot.                                      *)
(*                                                                         *)
(* Python lists are modelled as TLA+ sequences; a Python index i (0-based, *)
(* negative counts from the end) is position Ix(i, n) of a sequence of     *)
(* length n.  Every handler is one action: the nested calls it makes       *)
(* (SaveTranscript, ClearAllWindows, CloseAdditionalTranscript, the        *)
(* activeTranscript property setter, ...) are operators from a state       *)
(* record to a state record, composed in the order of the source.          *)
(***************************************************************************)
EXTENDS Integers, Sequences, FiniteSets, TLC

VARIABLES
    TranscriptWindow,     \* self.TranscriptWindow: list of TranscriptionUI windows
    TranscriptNum,        \* self.TranscriptNum: list of transcript record numbers
    activeTranscript,     \* self._activeTranscript
    currentObj,           \* self.currentObj: None, an Episode or a Clip
    VideoFilename,        \* self.VideoFilename
    VideoStartPoint,      \* self.VideoStartPoint
    VideoEndPoint,        \* self.VideoEndPoint
    WindowPositions,      \* self.WindowPositions: <<>> or the presentation-mode snapshot
    shuttingDown,         \* self.shuttingDown
    PlayAllClipsWindow,   \* self.PlayAllClipsWindow: TRUE when one is registered
    VideoWindow,          \* the registered video window (media transport)
    MenuWindow,           \* the registered menu window
    VisualizationWindow,  \* the registered visualization window
    DataWindow,           \* the registered data window
    autoArrange,          \* TransanaGlobal.configData.autoArrange
    PlatformInfo,         \* wx.PlatformInfo: the port of wxPython the program runs on
    EpisodeDB,            \* the database record of the episode: TapeLength, RecordLock
    singleUserVersion,    \* TransanaConstants.singleUserVersion
    Transcripts2,         \* the database table Transcripts2: a set of rows
    TranscriptObj,        \* a Transcript object (Transcript.py) this program works with
    newText,              \* GetTranscriptWithoutTimeCodes in progress: its local newText
    logon,                \* the database logon loop in progress: logonCount, loggedOn
    last                  \* history: the handler that ran last, its arguments and its calls

vars == <<TranscriptWindow, TranscriptNum, activeTranscript, currentObj, VideoFilename,
          VideoStartPoint, VideoEndPoint, WindowPositions, shuttingDown,
          PlayAllClipsWindow, VideoWindow, MenuWindow, VisualizationWindow, DataWindow,
          autoArrange, PlatformInfo, EpisodeDB, singleUserVersion, Transcripts2,
          TranscriptObj, newText, logon, last>>

\* What the ControlObject's handlers leave alone
recordVars == <<singleUserVersion, Transcripts2, TranscriptObj, newText>>

\* What the methods of the Transcript object leave alone
sessionVars == <<TranscriptWindow, TranscriptNum, activeTranscript, currentObj, VideoFilename,
                 VideoStartPoint, VideoEndPoint, WindowPositions, shuttingDown,
                 PlayAllClipsWindow, VideoWindow, MenuWindow, VisualizationWindow,
                 DataWindow, autoArrange, PlatformInfo, EpisodeDB>>

(***************************************************************************)
(* Bounds of the model.                                                    *)
(***************************************************************************)
\* The user opens additional transcript windows only while fewer than MaxWin are open.
MaxWin == 3
\* The user edits a transcript only while fewer than MaxUnsaved windows have unsaved changes.
MaxUnsaved == 1
\* Time codes (milliseconds in the program) range over 0..MaxTime.
MaxTime == 3

(***************************************************************************)
(* The database and the file system the handlers read.                     *)
(***************************************************************************)
\* Episode records: one episode, with one media file.
EpisodeNums == {1}
\* Transcript records of the episode (clip_num = 0).
EpisodeTranscriptNums == {1, 2}
\* Clip records: clip c has c transcripts.
ClipNums == {1, MaxWin}
\* Clip.transcripts of clip c, in order: the record numbers of its clip transcripts.
ClipTranscripts(c) == [k \in 1..c |-> 10 * c + k]
\* The record number of a clip transcript's source transcript
SourceTranscript(t) == IF t >= 10 THEN 1 + (t % 2) ELSE 0
\* Transcript.clip_num of transcript record t (0 for an episode transcript)
ClipNumOf(t) == IF t >= 10 THEN t \div 10 ELSE 0
ClipStart(c) == 1
ClipStop(c) == MaxTime - 1
EpisodeMedia(e) == "ep1.mpg"
ClipMedia(c) == "ep1.mpg"
\* The duration the media player reports for a file once it is open
MediaDuration(f) == MaxTime

NoObj == [kind |-> "None", number |-> 0, clip_start |-> 0, clip_stop |-> 0, tape_length |-> 0]
EpisodeObj(e) == [kind |-> "Episode", number |-> e, clip_start |-> 0, clip_stop |-> 0,
                  tape_length |-> EpisodeDB.TapeLength]
ClipObj(c) == [kind |-> "Clip", number |-> c, clip_start |-> ClipStart(c),
               clip_stop |-> ClipStop(c), tape_length |-> 0]

\* Record numbers a caller can pass: those of the records and one that no record has
AnyEpisode == EpisodeNums \cup {0}
AnyTranscript == EpisodeTranscriptNums \cup {9}
AnyClip == ClipNums \cup {0}
\* Series.Series(series) and Episode.Episode(series, episode) find their records
EpisodeFound(e) == e \in EpisodeNums
\* Transcript.Transcript(transcript): db_load_by_num finds exactly one row
TranscriptFound(t) == t \in EpisodeTranscriptNums
\* Clip.Clip(clipNum) finds its record
ClipFound(c) == c \in ClipNums

(***************************************************************************)
(* The screen and the windows' initial geometry: <<left, top, width,       *)
(* height>>.                                                               *)
(***************************************************************************)
ClientDisplayRect == <<0, 0, 100, 120>>
MenuRect == <<0, 0, 100, 4>>
VisualizationDims == <<0, 4, 60, 36>>
VideoDims == <<60, 4, 40, 36>>
TranscriptDims == <<0, 40, 60, 80>>
DataDims == <<60, 40, 40, 80>>
\* The ports the program is run on
Platforms == {"wxMSW", "wxMac"}
\* 'wxMac' in wx.PlatformInfo
wxMac == PlatformInfo = "wxMac"

(***************************************************************************)
(* Python list indexing.                                                   *)
(***************************************************************************)
\* Position in a sequence of length n of Python index i
Ix(i, n) == IF i < 0 THEN n + i + 1 ELSE i + 1
\* del list[i]
DelAt(seq, p) == [k \in 1..(Len(seq) - 1) |-> IF k < p THEN seq[k] ELSE seq[k + 1]]

NWin(s) == Len(s.TranscriptWindow)
\* self.TranscriptWindow[i]
Win(s, i) == s.TranscriptWindow[Ix(i, NWin(s))]
\* 0-based index of the window Python index i denotes
Norm(s, i) == Ix(i, NWin(s)) - 1

Ev(e, w, x) == [e |-> e, w |-> w, x |-> x]
Log(s, e, w, x) == [s EXCEPT !.log = Append(@, Ev(e, w, x))]

(***************************************************************************)
(* TranscriptionUI: one transcript window.                                 *)
(*   tr        editor.TranscriptObj: record number of the transcript shown *)
(*             (0: none)                                                   *)
(*   modified  TranscriptModified()                                        *)
(*   starred   the dialog title carries the '** ... **' decoration         *)
(*   strip     a wx.CallAfter(dlg.SetTitle, title[3:-3]) is pending        *)
(*   transcriptWindowNumber, dlgWindowNumber  the window-number tags       *)
(*   dims, shown, closeBox   geometry, visibility, window style            *)
(*   disp      history: how the user's latest save prompt for this window  *)
(*             ended within the running handler                            *)
(***************************************************************************)
NewTranscriptionUI(num, includeClose) ==
    [tr |-> 0, modified |-> FALSE, starred |-> FALSE, strip |-> FALSE,
     transcriptWindowNumber |-> num, dlgWindowNumber |-> num,
     dims |-> TranscriptDims, shown |-> FALSE, closeBox |-> includeClose, disp |-> "none"]

\* TranscriptionUI.ClearDoc
ClearDoc(s, i) ==
    LET w == Win(s, i)
        how == IF ~w.modified THEN "clean" ELSE IF w.disp = "no" THEN "declined" ELSE "lost"
        s1 == [s EXCEPT !.TranscriptWindow[Ix(i, NWin(s))] =
                            [w EXCEPT !.tr = 0, !.modified = FALSE]]
    IN Log(s1, "clear", Norm(s, i), how)

\* TranscriptionUI.LoadTranscript(transcriptObj)
WinLoadTranscript(s, i, t) ==
    [s EXCEPT !.TranscriptWindow[Ix(i, NWin(s))] =
                  [@ EXCEPT !.tr = t, !.modified = FALSE]]

\* dlg.SetTitle(title): sets the whole title at once
SetTitle(s, i, star) ==
    [s EXCEPT !.TranscriptWindow[Ix(i, NWin(s))] = [@ EXCEPT !.starred = star]]

\* The pending wx.CallAfter calls run: at the next idle time, inside a modal dialog's
\* event loop, or inside wx.Yield()
ProcessPendingEvents(s) ==
    [s EXCEPT !.TranscriptWindow =
        [k \in 1..NWin(s) |->
            IF s.TranscriptWindow[k].strip
            THEN [s.TranscriptWindow[k] EXCEPT !.starred = FALSE, !.strip = FALSE]
            ELSE s.TranscriptWindow[k]]]

(***************************************************************************)
(* The activeTranscript property.                                          *)
(***************************************************************************)
set_activeTranscript(s, transcriptNum) ==
    LET n == NWin(s)
        upd(x) ==
            LET w == s.TranscriptWindow[x + 1]
                losing == (x # transcriptNum) /\ w.starred
                gaining == (x = transcriptNum) /\ ~w.starred /\ (n > 1)
            IN [w EXCEPT !.strip = IF losing /\ ~s.shuttingDown THEN TRUE ELSE @,
                         !.starred = IF gaining THEN TRUE ELSE @]
    IN [s EXCEPT !.TranscriptWindow = [k \in 1..n |-> upd(k - 1)],
                 !.activeTranscript = transcriptNum]

(***************************************************************************)
(* Register(Transcript=...)                                                *)
(***************************************************************************)
\* Faulty variant of Register: the new window is not made the active one
RegisterTranscriptOnly(s, w) ==
    [s EXCEPT !.TranscriptWindow = Append(@, w),
              !.TranscriptNum = Append(@, 0)]

\* Faulty variant of Register: the new window gets no entry in TranscriptNum
RegisterWindowOnly(s, w) ==
    [s EXCEPT !.TranscriptWindow = Append(@, w),
              !.activeTranscript = Len(s.TranscriptWindow)]

RegisterTranscript(s, w) ==
    LET s1 == [s EXCEPT !.TranscriptWindow = Append(@, w),
                        !.TranscriptNum = Append(@, 0)]
    IN set_activeTranscript(s1, NWin(s1) - 1)

(***************************************************************************)
(* AutoArrangeTranscriptWindows                                            *)
(***************************************************************************)
\* Faulty variant of AutoArrangeTranscriptWindows: the height of the first window is
\* shared out, not the space below its top
ArrangeWithinFirstWindow(s) ==
    LET n == NWin(s)
        first == s.TranscriptWindow[1].dims
        place(k) == <<first[1], first[2] + (k - 1) * (first[4] \div n),
                      s.VisualizationWindow.dims[3], first[4] \div n>>
    IN [s EXCEPT !.TranscriptWindow =
            [k \in 1..n |-> [s.TranscriptWindow[k] EXCEPT
                                !.dims = place(k),
                                !.closeBox = IF k = 1 THEN n > 1 ELSE @]]]

AutoArrangeTranscriptWindows(s) ==
    LET n == NWin(s)
        left == s.TranscriptWindow[1].dims[1]
        top == s.TranscriptWindow[1].dims[2]
        h == ClientDisplayRect[4]
        height == (h - top) + (IF wxMac THEN 20 ELSE 0)
        width == s.VisualizationWindow.dims[3]
        place(k) == <<left, top + (k - 1) * (height \div n), width, height \div n>>
    IN [s EXCEPT !.TranscriptWindow =
            [k \in 1..n |-> [s.TranscriptWindow[k] EXCEPT
                                !.dims = place(k),
                                !.closeBox = IF k = 1 THEN n > 1 ELSE @]]]

(***************************************************************************)
(* SaveTranscript(prompt, cleardoc, transcriptToSave); the result is left  *)
(* in s.ret.  The user's answers to the prompts are read from s.answers.   *)
(***************************************************************************)
\* Faulty variant of SaveTranscript: the answer to the prompt is ignored and the
\* transcript is saved
SaveTranscriptAnyway(s, prompt, cleardoc, transcriptToSave) ==
    LET t == IF transcriptToSave = -1 THEN s.activeTranscript ELSE transcriptToSave
        p == Ix(t, NWin(s))
    IN IF ~Win(s, t).modified
       THEN [s EXCEPT !.ret = 1]
       ELSE LET s1 == set_activeTranscript(
                          Log([ProcessPendingEvents(s) EXCEPT
                                  !.answers = Tail(@),
                                  !.TranscriptWindow[p].disp = Head(s.answers)],
                              "prompt", p - 1, Head(s.answers)), t)
            IN [Log(s1, "save", p - 1, "ok") EXCEPT
                   !.TranscriptWindow[p].modified = FALSE, !.ret = 1]

SaveTranscript(s, prompt, cleardoc, transcriptToSave) ==
    LET t == IF transcriptToSave = -1 THEN s.activeTranscript ELSE transcriptToSave
        p == Ix(t, NWin(s))
        \* without a prompt the answer read is only how the save goes
        answer == Head(s.answers)
        \* "SaveError": the user answers Yes and the database refuses the save
        result == IF prompt /\ answer = "no" THEN "no" ELSE "yes"
        \* the modal prompt, then self.activeTranscript = transcriptToSave
        Prompted(s0) ==
            set_activeTranscript(
                Log([ProcessPendingEvents(s0) EXCEPT
                        !.answers = Tail(@),
                        !.TranscriptWindow[p].disp = result],
                    "prompt", p - 1, result), t)
        Answered(s1) ==
            IF result = "yes"
            THEN IF answer = "SaveError"
                 THEN \* SaveError: the error dialog is shown, 1 is returned
                      [ProcessPendingEvents(Log(s1, "save", p - 1, "fail")) EXCEPT !.ret = 1]
                 ELSE [Log(s1, "save", p - 1, "ok") EXCEPT
                          !.TranscriptWindow[p].modified = FALSE, !.ret = 1]
            ELSE [(IF cleardoc THEN ClearDoc(s1, t) ELSE s1) EXCEPT !.ret = 0]
    IN IF ~Win(s, t).modified
       THEN [s EXCEPT !.ret = 1]
       ELSE Answered(IF prompt THEN Prompted(s) ELSE [s EXCEPT !.answers = Tail(@)])

(***************************************************************************)
(* PropagateChanges(transcriptWindowNumber); the propagation tools are     *)
(* recorded as calls                                                       *)
(***************************************************************************)
PropagateChanges(s, transcriptWindowNumber) ==
    LET Propagated(s1) ==
            IF s1.ret = 1
            THEN IF s1.currentObj.kind = "Episode"
                 THEN Log(s1, "propagate", 0, "episode")
                 ELSE IF s1.currentObj.kind = "Clip"
                 THEN Log(s1, "propagate", transcriptWindowNumber, "clip")
                 ELSE s1
            ELSE \* the information dialog is modal
                 Log(ProcessPendingEvents(s1), "info", 0, "")
    IN Propagated(SaveTranscript(s, TRUE, FALSE, -1))

(***************************************************************************)
(* CloseAdditionalTranscript(transcriptNum)                                *)
(***************************************************************************)
\* Faulty variant of the renumbering loop: the tags are left as they were
RenumberNothing(tw) == tw

\* the loop that renumbers the windows after the removal
Renumber(tw) ==
    [k \in 1..Len(tw) |-> [tw[k] EXCEPT !.transcriptWindowNumber = k - 1,
                                        !.dlgWindowNumber = k - 1]]

CloseAdditionalTranscript(s, transcriptNum) ==
    LET differs == s.activeTranscript # transcriptNum
        prev0 == IF differs THEN s.activeTranscript ELSE 0
        PrevActiveTranscript(s1) ==
            IF prev0 = NWin(s1) - 1 THEN s1.activeTranscript - 1 ELSE prev0
        Saved(s1) ==
            IF Win(s1, transcriptNum).modified
            THEN SaveTranscript(s1, TRUE, TRUE, -1) ELSE s1
        \* window 1 takes window 0's screen position
        Moved(s2) ==
            IF transcriptNum = 0
            THEN [s2 EXCEPT !.TranscriptWindow[2].dims =
                      <<s2.TranscriptWindow[1].dims[1], s2.TranscriptWindow[1].dims[2],
                        @[3], @[4]>>]
            ELSE s2
        Removed(s3) ==
            LET p == Ix(transcriptNum, NWin(s3))
                w == s3.TranscriptWindow[p]
                how == IF ~w.modified THEN "clean"
                       ELSE IF w.disp = "no" THEN "declined" ELSE "lost"
            IN Log([s3 EXCEPT !.TranscriptWindow = DelAt(@, p),
                              !.TranscriptNum = DelAt(@, p)], "close", p - 1, how)
        Renumbered(s5) == [s5 EXCEPT !.TranscriptWindow = Renumber(@)]
        Closed(s1) ==
            set_activeTranscript(
                Renumbered(AutoArrangeTranscriptWindows(Removed(Moved(Saved(s1))))),
                PrevActiveTranscript(s1))
    IN Closed(IF differs THEN set_activeTranscript(s, transcriptNum) ELSE s)

\* dlg.Close(): the dialog's close handler hands its window number to the ControlObject
DlgClose(s, i) == CloseAdditionalTranscript(s, Win(s, i).dlgWindowNumber)

(***************************************************************************)
(* ClearAllWindows(resetMultipleTranscripts)                               *)
(***************************************************************************)
ClearVideo(s) ==
    [s EXCEPT !.VideoWindow = [@ EXCEPT !.mediaLength = 0, !.state = "None"]]

RECURSIVE CloseSecondaries(_)
\* while len(self.TranscriptWindow) > 1: save, clear and close the last window
CloseSecondaries(s) ==
    IF NWin(s) > 1
    THEN LET lastWin == NWin(s) - 1
             s1 == SaveTranscript(s, TRUE, FALSE, lastWin)
             s2 == ClearDoc(s1, lastWin)
         IN CloseSecondaries(DlgClose(s2, lastWin))
    ELSE s

\* Faulty variant of ClearAllWindows: only the active window is cleared, whatever
\* resetMultipleTranscripts is
ClearActiveWindow(s, resetMultipleTranscripts) ==
    LET Cleared(s2) ==
            SetTitle(ClearDoc([s2 EXCEPT
                                  !.TranscriptNum[Ix(s2.activeTranscript, NWin(s2))] = 0],
                              s2.activeTranscript),
                     s2.activeTranscript, FALSE)
    IN ProcessPendingEvents(Cleared(SaveTranscript(s, TRUE, FALSE, -1)))

ClearAllWindows(s, resetMultipleTranscripts) ==
    LET Primary(s1) == IF resetMultipleTranscripts THEN set_activeTranscript(s1, 0) ELSE s1
        Cleared(s2) ==
            SetTitle(ClearDoc([s2 EXCEPT
                                  !.TranscriptNum[Ix(s2.activeTranscript, NWin(s2))] = 0],
                              s2.activeTranscript),
                     s2.activeTranscript, FALSE)
        Emptied(b) == [b EXCEPT !.DataWindow.tabs = "none", !.currentObj = NoObj]
        Reset(s4) ==
            IF resetMultipleTranscripts
            THEN Emptied(AutoArrangeTranscriptWindows(
                             CloseSecondaries([ClearVideo(s4) EXCEPT !.VideoFilename = ""])))
            ELSE s4
    IN \* wx.Yield()
       ProcessPendingEvents(Reset(Cleared(Primary(SaveTranscript(s, TRUE, FALSE, -1)))))

(***************************************************************************)
(* OpenAdditionalTranscript(transcriptNum, isEpisodeTranscript)            *)
(***************************************************************************)
OpenAdditionalTranscript(s, transcriptNum, isEpisodeTranscript) ==
    LET \* the episode transcript's title, '** ... **' when activeTranscript > 0
        Titled(s1) ==
            IF isEpisodeTranscript
            THEN SetTitle(s1, s1.activeTranscript, s1.activeTranscript > 0) ELSE s1
        Loaded(s2) ==
            [WinLoadTranscript(s2, s2.activeTranscript, transcriptNum) EXCEPT
                !.TranscriptNum[Ix(s2.activeTranscript, NWin(s2))] = transcriptNum]
        Placed(s3) ==
            IF s3.autoArrange
            THEN AutoArrangeTranscriptWindows(s3)
            ELSE LET prevDims == Win(s3, s3.activeTranscript - 1).dims
                 IN [s3 EXCEPT !.TranscriptWindow[Ix(s3.activeTranscript, NWin(s3))].dims =
                        <<prevDims[1] + 16, prevDims[2] + 16,
                          prevDims[3] - 16, prevDims[4] - 16>>]
        \* newTranscriptWindow.Show()
        Shown(s4) ==
            Log([s4 EXCEPT !.TranscriptWindow[NWin(s4)].shown = TRUE], "open", NWin(s4) - 1, "")
    IN \* TranscriptionUI(menuWindow, includeClose=True); Register(Transcript=...)
       Shown(Placed(Loaded(Titled(
           RegisterTranscript(s, NewTranscriptionUI(NWin(s), TRUE))))))

(***************************************************************************)
(* LoadVideo(Filename, mediaStart, mediaLength); the result is left in     *)
(* s.ret (1: success, 0: the media file does not exist)                    *)
(***************************************************************************)
\* Faulty variant of LoadVideo: a missing media file goes unnoticed
LoadVideoAnyway(s, Filename, exists) ==
    [s EXCEPT !.VideoFilename = Filename,
              !.VideoWindow = [@ EXCEPT !.mediaLength = MediaDuration(Filename),
                                        !.state = "Stopped"],
              !.ret = 1]

LoadVideo(s, Filename, exists) ==
    IF ~exists
    THEN \* the error dialog is modal
         [ProcessPendingEvents(s) EXCEPT !.ret = 0]
    ELSE [s EXCEPT !.VideoFilename = Filename,
                   !.VideoWindow = [@ EXCEPT !.mediaLength = MediaDuration(Filename),
                                             !.state = "Stopped"],
                   !.ret = 1]

(***************************************************************************)
(* Video selection                                                         *)
(***************************************************************************)
SetVideoStartPoint(s, TimeCode) ==
    LET tc == IF TimeCode < 0 THEN 0 ELSE TimeCode
    IN [s EXCEPT !.VideoWindow.start = tc, !.VideoStartPoint = tc]

SetVideoEndPoint(s, TimeCode) ==
    [s EXCEPT !.VideoWindow.end = TimeCode, !.VideoEndPoint = TimeCode]

\* VideoWindow.GetMediaLength(): the duration of the open media, 0 when none is open
VideoGetMediaLength(s) == s.VideoWindow.mediaLength

SetVideoSelection(s, StartTimeCode, EndTimeCode) ==
    LET end == IF EndTimeCode <= 0
               THEN IF s.currentObj.kind = "Episode" THEN VideoGetMediaLength(s)
                    ELSE IF s.currentObj.kind = "Clip" THEN s.currentObj.clip_stop
                    ELSE EndTimeCode
               ELSE EndTimeCode
    IN \* then wx.CallLater(50, self.UpdateSelectionTextLater, self.activeTranscript):
       \* see UpdateSelectionTextLaterOp
       SetVideoEndPoint(SetVideoStartPoint(s, StartTimeCode), end)

(***************************************************************************)
(* UpdateSelectionTextLater(winNum)                                        *)
(***************************************************************************)
\* Faulty variant of UpdateSelectionTextLater: the window is indexed unchecked
UpdateSelectionTextUnchecked(s, winNum) ==
    IF winNum \in (-NWin(s))..(NWin(s) - 1)
    THEN Log(s, "UpdateSelectionText", Norm(s, winNum), "")
    ELSE Log(s, "IndexError", winNum, "")

\* if winNum in range(len(self.TranscriptWindow)): ... UpdateSelectionText(lbl)
UpdateSelectionTextLater(s, winNum) ==
    IF winNum \in 0..(NWin(s) - 1)
    THEN Log(s, "UpdateSelectionText", winNum, "")
    ELSE s

(***************************************************************************)
(* UpdateVideoPosition(currentPosition); changed is what UpdatePosition of *)
(* the active transcript window returns.  The calls are recorded; every    *)
(* one of them passes currentPosition on.                                  *)
(***************************************************************************)
\* Faulty variant of FanOut: only the active window is told the position
FanOutActive(s, k) ==
    UpdateSelectionTextLater(Log(s, "UpdatePosition", Norm(s, s.activeTranscript), ""),
                             Norm(s, s.activeTranscript))

RECURSIVE FanOut(_, _)
\* for winNum in range(len(self.TranscriptWindow)), from winNum = k on
FanOut(s, k) ==
    IF k >= NWin(s) THEN s
    ELSE FanOut(UpdateSelectionTextLater(Log(s, "UpdatePosition", k, ""), k), k + 1)

\* Faulty variant of RefreshTab: the tab is refreshed only while the video does not play
\* and the transcript position has changed
RefreshTabStrict(s, changed) ==
    IF s.VideoWindow.state # "Playing" /\ changed /\ s.DataWindow.tabs = "episode"
    THEN Log(s, "Refresh", 0, "") ELSE s

\* if (not self.IsPlaying()) or (self.TranscriptWindow[...].UpdatePosition(...)): Refresh
RefreshTab(s, changed) ==
    LET Refreshed(s1) == IF s1.DataWindow.tabs = "episode" THEN Log(s1, "Refresh", 0, "") ELSE s1
        Asked(s0) == Log(s0, "UpdatePosition", Norm(s0, s0.activeTranscript), "")
    IN IF s.VideoWindow.state # "Playing"
       THEN Refreshed(s)
       ELSE IF changed THEN Refreshed(Asked(s)) ELSE Asked(s)

UpdateVideoPosition(s, currentPosition, changed) ==
    LET Clamped(s0) ==
            IF s0.activeTranscript >= NWin(s0) THEN set_activeTranscript(s0, 0) ELSE s0
        \* self.VisualizationWindow.UpdatePosition(currentPosition)
        Visualized(s1) == Log(s1, "VisualizationUpdatePosition", 0, "")
    IN FanOut(RefreshTab(Visualized(Clamped(s)), changed), 0)

(***************************************************************************)
(* Play, Stop, Pause                                                       *)
(***************************************************************************)
\* TransanaGlobal.configData.transcriptionSetback, in the unit of the model's times
transcriptionSetback == 1

\* Faulty variant of Setback: the video is moved back whatever its start
SetbackUnclamped(s, videoPos) ==
    Log(s, "SetCurrentVideoPosition", videoPos - transcriptionSetback, "")

\* The setback of Play; videoPos is VideoWindow.GetCurrentVideoPosition().  The
\* position of the video is not part of the state: the event carries, as w, the
\* position the video window is given
Setback(s, videoPos) ==
    LET videoStart == IF s.currentObj.kind = "Episode" THEN 0
                      ELSE IF s.currentObj.kind = "Clip" THEN s.currentObj.clip_start
                      ELSE s.VideoWindow.start
        setbackSize == transcriptionSetback
    IN IF videoPos - videoStart > setbackSize
       THEN Log(s, "SetCurrentVideoPosition", videoPos - setbackSize, "")
       ELSE Log(s, "SetCurrentVideoPosition", videoStart, "")

\* Play(setback)
Play(s, setback, videoPos) ==
    LET s0 == IF setback THEN Setback(s, videoPos) ELSE s
        s1 == IF s0.VideoEndPoint = -1 /\ s0.currentObj.kind # "None"
              THEN SetVideoEndPoint(s0, IF s0.currentObj.kind = "Episode"
                                        THEN s0.currentObj.tape_length
                                        ELSE s0.currentObj.clip_stop)
              ELSE s0
    IN \* self.VideoWindow.Play()
       Log([s1 EXCEPT !.VideoWindow.state = IF @ = "None" THEN "None" ELSE "Playing"],
           "play", 0, IF setback THEN "setback" ELSE "")

\* Pause(): self.VideoWindow.Pause()
Pause(s) ==
    Log([s EXCEPT !.VideoWindow.state = IF @ = "Playing" THEN "Paused" ELSE @],
        "pause", 0, "")

\* Stop(): self.VideoWindow.Stop()
Stop(s) ==
    Log([s EXCEPT !.VideoWindow.state = IF @ \in {"Playing", "Paused"} THEN "Stopped" ELSE @],
        "stop", 0, "")

\* Faulty variant of PlayPause: it plays whatever the state of the video window
PlayAlways(s, setback, videoPos) == Play(s, setback, videoPos)

PlayPause(s, setback, videoPos) ==
    IF s.VideoWindow.state = "Playing" THEN Pause(s)
    ELSE IF s.VideoWindow.state \in {"Paused", "Stopped"} THEN Play(s, setback, videoPos)
    ELSE s

(***************************************************************************)
(* The episode record is given the length the video window found.          *)
(* s.persist is how the database answers in this handler: "ok",            *)
(* "RecordLockedError" (lock_record raises) or "SaveError" (db_save        *)
(* raises).  The record the calls work on is the one currentObj was loaded *)
(* from.                                                                   *)
(***************************************************************************)
PersistOutcomes == {"ok", "RecordLockedError", "SaveError"}

\* episodeObj.lock_record()
Episode_lock_record(s) ==
    IF s.persist = "RecordLockedError"
    THEN Log(s, "lock_record", 0, "RecordLockedError")
    ELSE Log([s EXCEPT !.EpisodeDB.RecordLock = TRUE], "lock_record", 0, "ok")

\* episodeObj.db_save()
Episode_db_save(s) ==
    IF s.persist = "SaveError"
    THEN Log(s, "db_save", 0, "SaveError")
    ELSE Log([s EXCEPT !.EpisodeDB.TapeLength = s.currentObj.tape_length], "db_save", 0, "ok")

\* episodeObj.unlock_record()
Episode_unlock_record(s) == Log([s EXCEPT !.EpisodeDB.RecordLock = FALSE], "unlock_record", 0, "")

\* try: lock_record(); db_save(); unlock_record()   except: pass
SaveLength(s) ==
    IF s.persist = "RecordLockedError" THEN Episode_lock_record(s)
    ELSE IF s.persist = "SaveError" THEN Episode_db_save(Episode_lock_record(s))
    ELSE Episode_unlock_record(Episode_db_save(Episode_lock_record(s)))

\* Faulty variant of FoundLength: the length is stored in the object before the lock
FoundLengthUnlocked(s, videoLength) ==
    LET Measured(s1) == [s1 EXCEPT !.currentObj.tape_length = videoLength]
    IN IF s.persist = "RecordLockedError" THEN Episode_lock_record(Measured(s))
       ELSE IF s.persist = "SaveError" THEN Episode_db_save(Measured(Episode_lock_record(s)))
       ELSE Episode_unlock_record(Episode_db_save(Measured(Episode_lock_record(s))))

\* try: lock_record(); tape_length = videoLength; db_save(); unlock_record()
\* except: pass
FoundLength(s, videoLength) ==
    LET Measured(s1) == [s1 EXCEPT !.currentObj.tape_length = videoLength]
    IN IF s.persist = "RecordLockedError" THEN Episode_lock_record(s)
       ELSE IF s.persist = "SaveError" THEN Episode_db_save(Measured(Episode_lock_record(s)))
       ELSE Episode_unlock_record(Episode_db_save(Measured(Episode_lock_record(s))))

\* GetMediaLength(entire): what it returns
MediaLength(s, entire) ==
    IF entire THEN VideoGetMediaLength(s)
    ELSE IF s.VideoEndPoint <= 0 THEN VideoGetMediaLength(s) - s.VideoStartPoint
    ELSE IF s.VideoEndPoint - s.VideoStartPoint > 0 THEN s.VideoEndPoint - s.VideoStartPoint
    ELSE VideoGetMediaLength(s) - s.VideoStartPoint

\* GetMediaLength(entire): what it does to the episode on the way
GetMediaLength(s, entire) ==
    IF /\ ~entire
       /\ s.VideoEndPoint <= 0
       /\ s.currentObj.kind = "Episode"
       /\ EpisodeMedia(s.currentObj.number) = s.VideoFilename
       /\ s.currentObj.tape_length <= 0
       /\ VideoGetMediaLength(s) > 0
    THEN FoundLength(s, VideoGetMediaLength(s))
    ELSE s

\* LoadTranscript: "deal with missing episode length"
LengthCorrected(s) ==
    LET Asked(s1) == [GetMediaLength(s1, FALSE) EXCEPT
                         !.currentObj.tape_length = MediaLength(s1, FALSE)]
        Kept(s2) == IF s2.currentObj.tape_length > 0 THEN SaveLength(s2) ELSE s2
    IN IF s.currentObj.tape_length <= 0 THEN Kept(Asked(s)) ELSE s

(***************************************************************************)
(* LoadTranscript(series, episode, transcript)                             *)
(***************************************************************************)
\* Faulty variant of LoadTranscript: the transcript is always shown in window 0
LoadTranscriptInFirst(s, episode, transcript, mediaExists) ==
    LET Saved(s0) ==
            IF Win(s0, s0.activeTranscript).modified
            THEN SaveTranscript(s0, TRUE, TRUE, -1) ELSE s0
        Cleared(s1) == ClearAllWindows(s1, s1.activeTranscript = 0)
        Started(s2) == [s2 EXCEPT !.currentObj = EpisodeObj(episode),
                                  !.VideoStartPoint = 0,
                                  !.VideoEndPoint = 0,
                                  !.DataWindow.tabs = "none"]
        Displayed(s5) ==
            [WinLoadTranscript(SetTitle(s5, 0, FALSE), 0, transcript) EXCEPT
                !.TranscriptNum[1] = transcript,
                !.DataWindow.tabs = "episode",
                !.ret = 1]
        Finished(s4) ==
            IF s4.ret = 1
            THEN LengthCorrected(Displayed(SetVideoSelection(s4, 0, 0)))
            ELSE [s4 EXCEPT !.ret = 0]
    IN Finished(LoadVideo(Started(Cleared(Saved(s))), EpisodeMedia(episode), mediaExists))

LoadTranscript(s, episode, transcript, mediaExists) ==
    LET Saved(s0) ==
            IF Win(s0, s0.activeTranscript).modified
            THEN SaveTranscript(s0, TRUE, TRUE, -1) ELSE s0
        \* clearAll = (self.activeTranscript == 0)
        Cleared(s1) == ClearAllWindows(s1, s1.activeTranscript = 0)
        Started(s2) == [s2 EXCEPT !.currentObj = EpisodeObj(episode),
                                  !.VideoStartPoint = 0,
                                  !.VideoEndPoint = 0,
                                  !.DataWindow.tabs = "none"]
        Displayed(s5) ==
            [WinLoadTranscript(SetTitle(s5, s5.activeTranscript, s5.activeTranscript > 0),
                               s5.activeTranscript, transcript) EXCEPT
                !.TranscriptNum[Ix(s5.activeTranscript, NWin(s5))] = transcript,
                !.DataWindow.tabs = "episode",
                !.ret = 1]
        Finished(s4) ==
            IF s4.ret = 1
            THEN LengthCorrected(Displayed(SetVideoSelection(s4, 0, 0)))
            ELSE [s4 EXCEPT !.ret = 0]
        Resolved(s1) ==
            IF ~EpisodeFound(episode)
            THEN \* Series.Series / Episode.Episode raises: the handler ends here
                 Log([s1 EXCEPT !.ret = 0], "RecordNotFoundError", 0, "episode")
            ELSE IF ~TranscriptFound(transcript)
            THEN \* self.currentObj = episodeObj, then Transcript.Transcript raises
                 Log([s1 EXCEPT !.currentObj = EpisodeObj(episode), !.ret = 0],
                     "RecordNotFoundError", 0, "transcript")
            ELSE Finished(LoadVideo(Started(s1), EpisodeMedia(episode), mediaExists))
    IN Resolved(Cleared(Saved(s)))

(***************************************************************************)
(* LoadClipByNumber(clipNum)                                               *)
(***************************************************************************)
\* Faulty variant of the loop below: only the first remaining transcript is opened
OpenOneClipTranscript(s, trs) ==
    LET Titled(s1) == SetTitle(s1, NWin(s1) - 1, FALSE)
    IN IF trs = <<>>
       THEN s
       ELSE Titled(OpenAdditionalTranscript(s, Head(trs), FALSE))

RECURSIVE OpenClipTranscripts(_, _)
\* for tr in clipObj.transcripts[1:]: open it in an additional window, set its title
OpenClipTranscripts(s, trs) ==
    LET Titled(s1) == SetTitle(s1, NWin(s1) - 1, FALSE)
    IN IF trs = <<>>
       THEN s
       ELSE OpenClipTranscripts(Titled(OpenAdditionalTranscript(s, Head(trs), FALSE)),
                                Tail(trs))

LoadClipByNumber(s, clipNum, mediaExists) ==
    LET clipObj == ClipObj(clipNum)
        Saved(s0) ==
            IF Win(s0, s0.activeTranscript).modified
            THEN SaveTranscript(s0, TRUE, TRUE, -1) ELSE s0
        Started(s2) == [s2 EXCEPT !.currentObj = clipObj,
                                  !.VideoStartPoint = clipObj.clip_start,
                                  !.VideoEndPoint = clipObj.clip_stop]
        Trimmed(s4) == SetVideoSelection(s4, s4.VideoStartPoint, s4.VideoEndPoint)
        First(s5) ==
            WinLoadTranscript(SetTitle(s5, s5.activeTranscript, FALSE),
                              s5.activeTranscript, ClipTranscripts(clipNum)[1])
        \* DeleteTabs, AddKeywordsTab, DBTab.tree.select_Node(nodeList, 'ClipNode')
        Tabbed(s7) == Log([s7 EXCEPT !.DataWindow.tabs = "clip", !.ret = 1],
                          "select_Node", 0, "clip")
        Finished(s4) ==
            IF s4.ret = 1
            THEN Tabbed(OpenClipTranscripts(First(Trimmed(s4)),
                                            Tail(ClipTranscripts(clipNum))))
            ELSE [s4 EXCEPT !.DataWindow.tabs = "none", !.ret = 0]
        Resolved(s1) ==
            IF ~ClipFound(clipNum)
            THEN \* Clip.Clip raises: the handler ends here
                 Log([s1 EXCEPT !.ret = 0], "RecordNotFoundError", 0, "clip")
            ELSE Finished(LoadVideo(Started(s1), ClipMedia(clipNum), mediaExists))
    IN Resolved(ClearAllWindows(set_activeTranscript(Saved(s), 0), TRUE))

(***************************************************************************)
(* MultiPlay; sels[k] is what the editor of window k reports:              *)
(* get_selected_time_range() as (start, end) and the selected text         *)
(***************************************************************************)
\* GetMediaLength(entire = True)
GetMediaLengthEntire(s) == VideoGetMediaLength(s)

\* Clip.transcript_num of clip c: the source transcript of the clip's first transcript
ClipTranscriptNum(c) == SourceTranscript(ClipTranscripts(c)[1])

\* sel is what the editor of the active window reports; the result is
\* (originalTranscriptNum, startTime, endTime, text)
GetTranscriptSelectionInfo(s, sel) ==
    LET tr == Win(s, s.activeTranscript).tr
        originalTranscriptNum ==
            IF ClipNumOf(tr) = 0 THEN tr ELSE ClipTranscriptNum(s.currentObj.number)
    IN [num |-> originalTranscriptNum, start |-> sel.start, end |-> sel.end, text |-> sel.text]

GetMultipleTranscriptSelectionInfo(s, sels) ==
    [k \in 1..NWin(s) |->
        LET startTime == IF sels[k].start = 0 /\ s.currentObj.kind = "Clip"
                         THEN s.currentObj.clip_start ELSE sels[k].start
            endTime == IF sels[k].end <= 0
                       THEN IF s.currentObj.kind = "Clip" THEN s.currentObj.clip_stop
                            ELSE GetMediaLengthEntire(s)
                       ELSE sels[k].end
            tr == s.TranscriptWindow[k].tr
            \* self.currentObj.transcripts[self.TranscriptWindow.index(trWindow)].source_transcript
            originalTranscriptNum ==
                IF ClipNumOf(tr) = 0 THEN tr
                ELSE SourceTranscript(ClipTranscripts(s.currentObj.number)[k])
        IN [num |-> originalTranscriptNum, start |-> startTime, end |-> endTime,
            text |-> sels[k].text]]

RECURSIVE EarliestStart(_, _, _)
\* the loop of MultiPlay, for the start time
EarliestStart(info, k, acc) ==
    IF k > Len(info) THEN acc
    ELSE EarliestStart(info, k + 1,
                       IF info[k].text # "" /\ info[k].start < acc THEN info[k].start ELSE acc)

RECURSIVE LatestEnd(_, _, _)
\* the loop of MultiPlay, for the end time
LatestEnd(info, k, acc) ==
    IF k > Len(info) THEN acc
    ELSE LatestEnd(info, k + 1,
                   IF info[k].text # "" /\ info[k].end > acc THEN info[k].end ELSE acc)

MultiPlay(s, sels) ==
    LET transcriptSelectionInfo == GetMultipleTranscriptSelectionInfo(s, sels)
        earliestStartTime == EarliestStart(transcriptSelectionInfo, 1, GetMediaLengthEntire(s))
        latestEndTime == LatestEnd(transcriptSelectionInfo, 1, 0)
    IN \* without a setback Play does not read the position
       Play(SetVideoSelection(s, earliestStartTime, latestEndTime), FALSE, 0)

(***************************************************************************)
(* UpdatePlayState(playState)                                              *)
(***************************************************************************)
ShowTranscripts(tw, from, visible) ==
    [k \in 1..Len(tw) |-> IF k >= from THEN [tw[k] EXCEPT !.shown = visible] ELSE tw[k]]

\* int(0.7 * height), int(0.3 * height)
Int07(height) == (7 * height) \div 10
Int03(height) == (3 * height) \div 10

UpdatePlayStateStop(s) ==
    IF s.WindowPositions # <<>>
    THEN LET wp == s.WindowPositions
             inRange == Len(wp[4]) <= NWin(s)
             m == IF inRange THEN Len(wp[4]) ELSE NWin(s)
             s1 == [s EXCEPT !.autoArrange = s.MenuWindow.autoArrangeChecked,
                             !.VideoWindow.dims = wp[3],
                             !.TranscriptWindow =
                                 [k \in 1..NWin(s) |->
                                     IF k <= m THEN [s.TranscriptWindow[k] EXCEPT !.dims = wp[4][k]]
                                     ELSE s.TranscriptWindow[k]]]
         IN IF inRange
            THEN [s1 EXCEPT !.MenuWindow.shown = TRUE,
                            !.VisualizationWindow.shown = TRUE,
                            !.TranscriptWindow = ShowTranscripts(@, 1, TRUE),
                            !.DataWindow.shown = TRUE,
                            !.WindowPositions = <<>>]
            ELSE \* self.TranscriptWindow[winNum] raises IndexError: the handler ends here
                 Log(s1, "IndexError", m, "")
    ELSE s

\* the snapshot of the five windows' geometry
TakeSnapshot(s) ==
    [s EXCEPT !.autoArrange = FALSE,
              !.WindowPositions =
                  <<MenuRect, s.VisualizationWindow.dims, s.VideoWindow.dims,
                    [k \in 1..NWin(s) |-> s.TranscriptWindow[k].dims],
                    s.DataWindow.dims>>]

\* Faulty variant of the guarded snapshot: a snapshot is taken at every PLAY
SnapshotAlways(s) == TakeSnapshot(s)

\* if len(self.WindowPositions) == 0: take the snapshot
SnapshotIfNone(s) == IF s.WindowPositions = <<>> THEN TakeSnapshot(s) ELSE s

UpdatePlayStatePlay(s) ==
    IF s.MenuWindow.present # "All"
    THEN LET s1 == SnapshotIfNone(s)
             s2 == [s1 EXCEPT !.MenuWindow.shown = FALSE,
                              !.VisualizationWindow.shown = FALSE,
                              !.DataWindow.shown = FALSE]
             left == ClientDisplayRect[1]
             top == ClientDisplayRect[2]
             width == ClientDisplayRect[3]
             height == ClientDisplayRect[4]
             heightT == height + (IF wxMac THEN 24 ELSE 0)
         IN IF s2.MenuWindow.present = "Video"
            THEN [s2 EXCEPT !.TranscriptWindow = ShowTranscripts(@, 1, FALSE),
                            !.VideoWindow.dims = <<left + 2, top + 2, width - 4, height - 4>>]
            ELSE [s2 EXCEPT !.VideoWindow.dims =
                                <<left + 2, top + 2, width - 4, Int07(heightT) - 3>>,
                            !.TranscriptWindow =
                                ShowTranscripts([@ EXCEPT ![1].dims =
                                    <<left + 2, Int07(heightT) + 1, width - 4, Int03(heightT) - 4>>],
                                    2, FALSE)]
    ELSE s

UpdatePlayState(s, playState) ==
    IF playState = "Stop" /\ ~s.PlayAllClipsWindow THEN UpdatePlayStateStop(s)
    ELSE IF playState = "Play" THEN UpdatePlayStatePlay(s)
    ELSE s

(***************************************************************************)
(* State record <-> variables                                              *)
(***************************************************************************)
\* The state a handler starts from; answers are the user's answers to the save
\* prompts of this handler, in the order they are asked
St(op, a, b, answers) ==
    [TranscriptWindow |-> TranscriptWindow, TranscriptNum |-> TranscriptNum,
     activeTranscript |-> activeTranscript, currentObj |-> currentObj,
     VideoFilename |-> VideoFilename, VideoStartPoint |-> VideoStartPoint,
     VideoEndPoint |-> VideoEndPoint, WindowPositions |-> WindowPositions,
     shuttingDown |-> shuttingDown, PlayAllClipsWindow |-> PlayAllClipsWindow,
     VideoWindow |-> VideoWindow, MenuWindow |-> MenuWindow,
     VisualizationWindow |-> VisualizationWindow, DataWindow |-> DataWindow,
     autoArrange |-> autoArrange, EpisodeDB |-> EpisodeDB,
     answers |-> answers, persist |-> "ok", ret |-> 1, log |-> <<>>,
     op |-> op, a |-> a, b |-> b]

\* The handler returns: its final state becomes the program's state
Committed(s) ==
    /\ TranscriptWindow' = [k \in 1..NWin(s) |-> [s.TranscriptWindow[k] EXCEPT !.disp = "none"]]
    /\ TranscriptNum' = s.TranscriptNum
    /\ activeTranscript' = s.activeTranscript
    /\ currentObj' = s.currentObj
    /\ VideoFilename' = s.VideoFilename
    /\ VideoStartPoint' = s.VideoStartPoint
    /\ VideoEndPoint' = s.VideoEndPoint
    /\ WindowPositions' = s.WindowPositions
    /\ shuttingDown' = s.shuttingDown
    /\ PlayAllClipsWindow' = s.PlayAllClipsWindow
    /\ VideoWindow' = s.VideoWindow
    /\ MenuWindow' = s.MenuWindow
    /\ VisualizationWindow' = s.VisualizationWindow
    /\ DataWindow' = s.DataWindow
    /\ autoArrange' = s.autoArrange
    /\ PlatformInfo' = PlatformInfo
    /\ EpisodeDB' = s.EpisodeDB
    /\ UNCHANGED recordVars
    /\ last' = [op |-> s.op, a |-> s.a, b |-> s.b, ret |-> s.ret, log |-> s.log]

\* A handler other than the logon returns; none runs while the logon loop does
Commit(s) == logon.pc # "loop" /\ Committed(s) /\ UNCHANGED logon

\* The user's answers to n save prompts, and how the save goes after a Yes
Answers(n) == [1..n -> {"yes", "SaveError", "no"}]

\* 1 if window i (a Python index) has unsaved changes, else 0
Unsaved(i) == IF TranscriptWindow[Ix(i, Len(TranscriptWindow))].modified THEN 1 ELSE 0
\* The number of windows with unsaved changes
AllUnsaved == Cardinality({k \in 1..Len(TranscriptWindow) : TranscriptWindow[k].modified})

(***************************************************************************)
(* Transcript.py: a Transcript object and the table Transcripts2.          *)
(* A row is [TranscriptNum, TranscriptID, EpisodeNum, ClipNum, SortOrder,  *)
(* RTFText, LastSaveTime, RecordLock]; RecordLock is "" or the user who    *)
(* holds the lock ("me" is this program).  A text is a sequence of RTF     *)
(* tokens: "T" is TIMECODE_CHAR, ">" ends a time code, "B" is '\tab'.      *)
(* A call works on r = [obj, db, log, raised]: the object, the table, the  *)
(* statements it ran, and the exception that ended it ("" when none).      *)
(***************************************************************************)
\* The greatest time stamp the database server hands out
MaxStamp == 3
\* The greatest record number the table hands out
MaxRec == 3
\* len(self.text) > 8388000, in tokens
TextLimit == 2
\* The greatest length a text grows to
MaxGrow == 6

Row(num, id, clip, text, stamp) ==
    [TranscriptNum |-> num, TranscriptID |-> id, EpisodeNum |-> 1, ClipNum |-> clip,
     SortOrder |-> 0, RTFText |-> text, LastSaveTime |-> stamp, RecordLock |-> ""]

\* The table when the program starts: the transcripts of the episode
StoredTranscripts == {Row(1, "A", 0, <<"x">>, 1), Row(2, "B", 0, <<"T", ">">>, 1)}

\* DataObject.clear() and Transcript.__init__ without arguments
ClearedTranscript ==
    [number |-> 0, id |-> "", episode_num |-> 0, clip_num |-> 0, sort_order |-> 0,
     text |-> <<>>, lastsavetime |-> 0, isLocked |-> FALSE]

\* No call of GetTranscriptWithoutTimeCodes is in progress
NoCall == [pc |-> "idle", text |-> <<>>, pass |-> 0]

Call(obj, db) == [obj |-> obj, db |-> db, log |-> <<>>, raised |-> ""]
Raise(r, e) == [r EXCEPT !.raised = e, !.log = Append(@, Ev("raise", 0, e))]
Ran(r, statement) == [r EXCEPT !.log = Append(@, Ev(statement, 0, ""))]

RowsOf(db, num) == {row \in db : row.TranscriptNum = num}
TheRow(db, num) == CHOOSE row \in db : row.TranscriptNum = num
SetMax(S) == IF S = {} THEN 0 ELSE CHOOSE x \in S : \A y \in S : y <= x
\* CURRENT_TIMESTAMP of the server: later than every stamp in the table
Now(db) == 1 + SetMax({row.LastSaveTime : row \in db})
\* the auto-increment of TranscriptNum
NextNum(db) == 1 + SetMax({row.TranscriptNum : row \in db})

_load_row(obj, row) ==
    [obj EXCEPT !.number = row.TranscriptNum, !.id = row.TranscriptID,
                !.episode_num = row.EpisodeNum, !.clip_num = row.ClipNum,
                !.sort_order = row.SortOrder, !.text = row.RTFText,
                !.lastsavetime = row.LastSaveTime]

db_load_by_num(r, num) ==
    IF Cardinality(RowsOf(r.db, num)) # 1
    THEN Raise([Ran(r, "SELECT") EXCEPT !.obj = ClearedTranscript], "RecordNotFoundError")
    ELSE [Ran(r, "SELECT") EXCEPT !.obj = _load_row(r.obj, TheRow(r.db, num))]

\* DataObject.lock_record: the row is marked as locked by this user, unless another
\* user holds it
DataObject_lock_record(r) ==
    IF r.raised # "" THEN r
    ELSE IF RowsOf(r.db, r.obj.number) = {}
    THEN Raise(r, "RecordNotFoundError")
    ELSE LET row == TheRow(r.db, r.obj.number)
         IN IF row.RecordLock \notin {"", "me"}
            THEN Raise(r, "RecordLockedError")
            ELSE [Ran(r, "LOCK") EXCEPT
                     !.db = (@ \ {row}) \cup {[row EXCEPT !.RecordLock = "me"]},
                     !.obj.isLocked = TRUE]

\* DataObject.unlock_record
DataObject_unlock_record(r) ==
    [Ran(r, "UNLOCK") EXCEPT
        !.db = {IF row.TranscriptNum = r.obj.number /\ row.RecordLock = "me"
                THEN [row EXCEPT !.RecordLock = ""] ELSE row : row \in r.db},
        !.obj.isLocked = FALSE]

\* Faulty variant of lock_record: the time stamps are not compared
LockWithoutCompare(r, single) == DataObject_lock_record(r)

\* Transcript.lock_record; single is TransanaConstants.singleUserVersion
lock_record(r, single) ==
    LET Compared(r1) ==
            IF TheRow(r1.db, r1.obj.number).LastSaveTime # r1.obj.lastsavetime
            THEN db_load_by_num(r1, r1.obj.number)
            ELSE r1
    IN IF single
       THEN DataObject_lock_record(r)
       ELSE IF Cardinality(RowsOf(r.db, r.obj.number)) = 1
       THEN DataObject_lock_record(Compared(Ran(r, "SELECT LastSaveTime")))
       ELSE Raise(Ran(r, "SELECT LastSaveTime"), "RecordNotFoundError")

\* Transcript.unlock_record
unlock_record(r) == DataObject_unlock_record(r)

\* DBInterface.record_match_count on TranscriptID, EpisodeNum, ClipNum, SortOrder,
\* leaving out the record except
record_match_count(r, except) ==
    Cardinality({row \in r.db : /\ row.TranscriptID = r.obj.id
                                /\ row.EpisodeNum = r.obj.episode_num
                                /\ row.ClipNum = r.obj.clip_num
                                /\ row.SortOrder = r.obj.sort_order
                                /\ row.TranscriptNum # except})

\* the SELECT that ends db_save: the number and the time stamp of the saved row
Reread(r) ==
    LET rows == {row \in r.db : /\ row.TranscriptID = r.obj.id
                                /\ row.EpisodeNum = r.obj.episode_num
                                /\ row.ClipNum = r.obj.clip_num
                                /\ row.SortOrder = r.obj.sort_order}
        row == CHOOSE x \in rows : TRUE
    IN IF Cardinality(rows) = 1
       THEN [r EXCEPT !.obj.number = IF @ = 0 THEN row.TranscriptNum ELSE @,
                      !.obj.lastsavetime = row.LastSaveTime]
       ELSE Raise(r, "RecordNotFoundError")

\* The row db_save writes
Values(r, num) ==
    [TranscriptNum |-> num, TranscriptID |-> r.obj.id, EpisodeNum |-> r.obj.episode_num,
     ClipNum |-> r.obj.clip_num, SortOrder |-> r.obj.sort_order, RTFText |-> r.obj.text,
     LastSaveTime |-> Now(r.db),
     RecordLock |-> IF num = r.obj.number /\ r.obj.isLocked THEN "me" ELSE ""]

\* Faulty variant of db_save: the text is written whatever its length
SaveWithoutChecks(r) ==
    IF r.obj.number = 0
    THEN Reread([Ran(r, "INSERT") EXCEPT !.db = @ \cup {Values(r, NextNum(r.db))}])
    ELSE Reread([Ran(r, "UPDATE") EXCEPT
                    !.db = {row \in @ : row.TranscriptNum # r.obj.number}
                               \cup {Values(r, r.obj.number)}])

\* Transcript.db_save (TransanaConstants.demoVersion is off)
db_save(r) ==
    LET Inserted(r1) ==
            IF record_match_count(r1, 0) > 0
            THEN Raise(r1, "SaveError")
            ELSE Reread([Ran(r1, "INSERT") EXCEPT !.db = @ \cup {Values(r1, NextNum(r1.db))}])
        Updated(r1) ==
            IF record_match_count(r1, r1.obj.number) > 0
            THEN Raise(r1, "SaveError")
            ELSE Reread([Ran(r1, "UPDATE") EXCEPT
                            !.db = {row \in @ : row.TranscriptNum # r1.obj.number}
                                       \cup {Values(r1, r1.obj.number)}])
    IN IF r.obj.id = "" /\ r.obj.clip_num = 0
       THEN Raise(r, "SaveError")
       ELSE IF Len(r.obj.text) > TextLimit
       THEN Raise(r, "SaveError")
       ELSE IF r.obj.number = 0
       THEN \* _db_start_save() == 0
            Inserted(r)
       ELSE IF ~r.obj.isLocked
       THEN \* _db_start_save() refuses a record that is not locked
            Raise(r, "SaveError")
       ELSE Updated(r)

\* str.find(sub, start): a Python index, -1 when there is none
Find(text, sub, start) ==
    LET hits == {k \in (start + 1)..Len(text) : text[k] = sub}
    IN IF hits = {} THEN -1 ELSE (CHOOSE k \in hits : \A j \in hits : k <= j) - 1

\* text[from:], for from >= 0
From(text, from) == SubSeq(text, from + 1, Len(text))
\* text[:to], for to >= 0
Upto(text, to) == SubSeq(text, 1, to)

\* Faulty variant of the first loop's body: a time code with no '>' is cut to the end
CutTimeCodeOrRest(text) ==
    LET timeCodeStart == Find(text, "T", 0)
        timeCodeEnd == Find(text, ">", timeCodeStart)
    IN IF timeCodeEnd = -1 THEN Upto(text, timeCodeStart)
       ELSE Upto(text, timeCodeStart) \o From(text, timeCodeEnd + 1)

\* newText = newText[:timeCodeStart] + newText[timeCodeEnd + 1:]
CutTimeCode(text) ==
    LET timeCodeStart == Find(text, "T", 0)
        timeCodeEnd == Find(text, ">", timeCodeStart)
    IN Upto(text, timeCodeStart) \o From(text, timeCodeEnd + 1)

\* the body of the second loop: four spaces for the tab, then the first of them is
\* taken out again (newText[tabStart] is that space)
ReplaceTab(text) ==
    LET tabStart == Find(text, "B", 0)
        spaced == Upto(text, tabStart) \o <<" ", " ", " ", " ">> \o From(text, tabStart + 1)
    IN IF spaced[tabStart + 1] = " "
       THEN Upto(spaced, tabStart) \o From(spaced, tabStart + 1)
       ELSE spaced

(***************************************************************************)
(* The database logon loop of Transana.OnInit and of GetNewDatabase        *)
(***************************************************************************)
\* No logon is in progress
NoLogon == [pc |-> "idle", proc |-> "", logonCount |-> 0, loggedOn |-> FALSE,
            ret |-> FALSE, log |-> <<>>]

\* logonCount = 1; loggedOn = False
LogonStarted(proc) == [pc |-> "loop", proc |-> proc, logonCount |-> 1, loggedOn |-> FALSE,
                       ret |-> FALSE, log |-> <<>>]

\* while (logonCount <= 3) and (not loggedOn)
LogonGoesOn(l) == l.logonCount <= 3 /\ ~l.loggedOn

\* Faulty variant of the loop's body: the answer No does not end the loop
PassAskingOn(l, exists, answer) ==
    LET counted == [l EXCEPT !.logonCount = @ + 1,
                             !.log = Append(@, IF exists THEN "connected" ELSE "refused")]
    IN IF exists THEN [counted EXCEPT !.loggedOn = TRUE]
       ELSE IF counted.logonCount <= 3 THEN [counted EXCEPT !.log = Append(@, answer)]
       ELSE counted

\* The body of the loop; exists is what DBInterface.establish_db_exists() returns and
\* answer is the user's answer to "Would you like to try again?"
LogonPass(l, exists, answer) ==
    LET counted == [l EXCEPT !.logonCount = @ + 1,
                             !.log = Append(@, IF exists THEN "connected" ELSE "refused")]
    IN IF exists THEN [counted EXCEPT !.loggedOn = TRUE]
       ELSE IF counted.logonCount <= 3
       THEN [counted EXCEPT !.log = Append(@, answer),
                            !.logonCount = IF answer = "no" THEN 4 ELSE @]
       ELSE counted

\* After the loop of GetNewDatabase: if not loggedOn: self.MenuWindow.OnFileExit(None)
GetNewDatabaseEnds(l) ==
    [l EXCEPT !.pc = "done", !.ret = l.loggedOn,
              !.log = IF l.loggedOn THEN @ ELSE Append(@, "OnFileExit")]

\* After the loop of OnInit: the multi-user version connects to the message server,
\* and OnInit returns loggedOn
OnInitEnds(l, single, serverUp) ==
    LET loggedOn == IF ~single /\ l.loggedOn /\ ~serverUp THEN FALSE ELSE l.loggedOn
    IN [l EXCEPT !.pc = "done", !.loggedOn = loggedOn, !.ret = loggedOn,
                 !.log = IF ~single /\ l.loggedOn
                         THEN Append(@, IF serverUp THEN "server" ELSE "no server") ELSE @]

(***************************************************************************)
(* Initial state: ControlObject.__init__                                   *)
(***************************************************************************)
InitOf(platform, tapeLength, single) ==
    /\ PlatformInfo = platform
    /\ singleUserVersion = single
    /\ Transcripts2 = StoredTranscripts
    /\ TranscriptObj = ClearedTranscript
    /\ newText = NoCall
    /\ logon = NoLogon
    /\ EpisodeDB = [TapeLength |-> tapeLength, RecordLock |-> FALSE]
    /\ TranscriptWindow = <<>>
    /\ TranscriptNum = <<>>
    /\ activeTranscript = -1
    /\ currentObj = NoObj
    /\ VideoFilename = ""
    /\ VideoStartPoint = 0
    /\ VideoEndPoint = 0
    /\ WindowPositions = <<>>
    /\ shuttingDown = FALSE
    /\ PlayAllClipsWindow = FALSE
    /\ VideoWindow = [mediaLength |-> 0, state |-> "None", start |-> 0, end |-> 0,
                      dims |-> VideoDims]
    /\ MenuWindow = [shown |-> FALSE, present |-> "All", autoArrangeChecked |-> TRUE]
    /\ VisualizationWindow = [shown |-> FALSE, dims |-> VisualizationDims]
    /\ DataWindow = [shown |-> FALSE, tabs |-> "none", dims |-> DataDims]
    /\ autoArrange = TRUE
    /\ last = [op |-> "init", a |-> 0, b |-> 0, ret |-> 1, log |-> <<>>]

\* The program on a platform, with a database that knows the length of the episode
InitOn(platform) == InitOf(platform, MediaDuration(EpisodeMedia(1)), TRUE)

\* The program on Windows
Init == InitOn("wxMSW")

\* The program on Windows, with a database that has no length for the episode yet
InitUnknownLength == InitOf("wxMSW", 0, TRUE)

\* The program on Windows, in the single-user or in the multi-user version
InitAnyVersion ==
    \E single \in BOOLEAN : InitOf("wxMSW", MediaDuration(EpisodeMedia(1)), single)

\* The program on any of its platforms
InitAnyPlatform == \E platform \in Platforms : InitOn(platform)

(***************************************************************************)
(* Handlers                                                                *)
(***************************************************************************)
\* wx.CallAfter calls are waiting in the event queue.  The event loop runs them before it
\* hands the next user event to its handler.
PendingEvents == \E k \in 1..Len(TranscriptWindow) : TranscriptWindow[k].strip

\* self.TranscriptWindow[self.activeTranscript] exists.  While it does not, the video
\* window's position report is the event that is handled next (UpdateVideoPosition puts
\* the index right); the handlers that index the active window are not offered
Listed == activeTranscript < Len(TranscriptWindow)

\* The handlers run once the application is up and the event queue is drained
Ready == Len(TranscriptWindow) > 0 /\ ~PendingEvents /\ Listed

\* Transana.OnInit once establish_db_exists() has succeeded: the main windows are
\* created, registered and shown
MainWindows(s0) ==
    LET s1 == RegisterTranscript(s0, NewTranscriptionUI(0, wxMac))
        s2 == set_activeTranscript(s1, 0)
    IN [s2 EXCEPT !.TranscriptWindow[1].shown = TRUE,
                  !.MenuWindow.shown = TRUE,
                  !.VisualizationWindow.shown = TRUE,
                  !.DataWindow.shown = TRUE]

\* Transana.OnInit when the first logon succeeds
OnInit ==
    /\ Len(TranscriptWindow) = 0
    /\ logon.pc = "idle"
    /\ Commit(MainWindows(St("OnInit", 0, 0, <<>>)))

\* A step of the logon that leaves the windows alone
Logon(l) ==
    /\ logon' = l
    /\ last' = [op |-> "logon", a |-> 0, b |-> 0, ret |-> 1, log |-> <<>>]
    /\ UNCHANGED <<sessionVars, recordVars>>

\* Transana.OnInit up to its logon loop; connectionEstablished is whether the
\* database folder could be opened
OnInitStart(connectionEstablished) ==
    /\ Len(TranscriptWindow) = 0
    /\ logon.pc = "idle"
    /\ IF connectionEstablished
       THEN Logon(LogonStarted("OnInit"))
       ELSE Logon([LogonStarted("OnInit") EXCEPT !.pc = "done"])

\* One pass of the loop of OnInit
OnInitPass(exists, answer) ==
    /\ logon.pc = "loop"
    /\ logon.proc = "OnInit"
    /\ LogonGoesOn(logon)
    /\ logon' = LogonPass(logon, exists, answer)
    /\ IF exists
       THEN Committed(MainWindows(St("OnInit", 0, 0, <<>>)))
       ELSE /\ last' = [op |-> "logon", a |-> 0, b |-> 0, ret |-> 1, log |-> <<>>]
            /\ UNCHANGED <<sessionVars, recordVars>>

\* The loop of OnInit has ended: OnInit returns
OnInitEnd(serverUp) ==
    /\ logon.pc = "loop"
    /\ logon.proc = "OnInit"
    /\ ~LogonGoesOn(logon)
    /\ Logon(OnInitEnds(logon, singleUserVersion, serverUp))

\* GetNewDatabase up to its logon loop
GetNewDatabaseStart ==
    /\ Ready
    /\ logon.pc \in {"idle", "done"}
    /\ logon.pc = "done" => logon.ret
    /\ logon' = LogonStarted("GetNewDatabase")
    /\ \E answers \in Answers(AllUnsaved + Unsaved(0)) :
          Committed(ClearAllWindows(
              set_activeTranscript(St("GetNewDatabase", 0, 0, answers), 0), TRUE))

\* One pass of the loop of GetNewDatabase
GetNewDatabasePass(exists, answer) ==
    /\ logon.pc = "loop"
    /\ logon.proc = "GetNewDatabase"
    /\ LogonGoesOn(logon)
    /\ Logon(LogonPass(logon, exists, answer))

\* The loop of GetNewDatabase has ended
GetNewDatabaseEnd ==
    /\ logon.pc = "loop"
    /\ logon.proc = "GetNewDatabase"
    /\ ~LogonGoesOn(logon)
    /\ Logon(GetNewDatabaseEnds(logon))

\* A transcript window gains the focus: ControlObject.activeTranscript = its window number
ActivateTranscript(i) ==
    /\ ~PendingEvents
    /\ i \in 0..(Len(TranscriptWindow) - 1)
    /\ Commit(set_activeTranscript(St("ActivateTranscript", i, 0, <<>>),
                                   TranscriptWindow[i + 1].transcriptWindowNumber))

\* The application is asked to exit: the menu window sets ControlObject.shuttingDown
ShutDown ==
    /\ Ready
    /\ ~shuttingDown
    /\ Commit([St("ShutDown", 0, 0, <<>>) EXCEPT !.shuttingDown = TRUE])

\* activeTranscript is set to the number of a window that is not in the list: the focus
\* event of a window that is being torn down, or Play All Clips naming a window it has
\* yet to open
ActivateMissingTranscript(n) ==
    /\ ~PendingEvents
    /\ Len(TranscriptWindow) > 0
    /\ n >= Len(TranscriptWindow)
    /\ Commit(set_activeTranscript(St("ActivateMissingTranscript", n, 0, <<>>), n))

\* The user edits the transcript in window i
EditTranscript(i) ==
    /\ ~PendingEvents
    /\ i \in 0..(Len(TranscriptWindow) - 1)
    /\ TranscriptWindow[i + 1].tr # 0
    /\ ~TranscriptWindow[i + 1].modified
    /\ AllUnsaved < MaxUnsaved
    /\ Commit([St("EditTranscript", i, 0, <<>>) EXCEPT
                  !.TranscriptWindow[i + 1].modified = TRUE])

\* The pending wx.CallAfter calls run at idle time
Idle ==
    /\ PendingEvents
    /\ Commit(ProcessPendingEvents(St("Idle", 0, 0, <<>>)))

CloseAdditionalTranscriptOp(i) ==
    /\ ~PendingEvents
    /\ Listed
    /\ Len(TranscriptWindow) > 1
    /\ i \in 0..(Len(TranscriptWindow) - 1)
    /\ \E answers \in Answers(Unsaved(i)) :
          Commit(CloseAdditionalTranscript(St("CloseAdditionalTranscript", i, 0, answers), i))

ClearAllWindowsOp ==
    /\ Ready
    /\ \E answers \in Answers(AllUnsaved + Unsaved(activeTranscript)) :
          Commit(ClearAllWindows(St("ClearAllWindows", 0, 0, answers), TRUE))

OpenAdditionalTranscriptOp(t) ==
    /\ ~PendingEvents
    /\ Len(TranscriptWindow) \in 1..(MaxWin - 1)
    /\ Commit(OpenAdditionalTranscript(St("OpenAdditionalTranscript", t, 0, <<>>), t, TRUE))

\* How the database can answer when a handler stores the length of the episode: it
\* is asked only while the record has no length
Persists == IF EpisodeDB.TapeLength <= 0 THEN PersistOutcomes ELSE {"ok"}

LoadTranscriptOp(e, t, mediaExists) ==
    /\ Ready
    \* the active window can be asked about twice; the others once, when they are closed
    /\ \E answers \in Answers(IF activeTranscript = 0
                               THEN AllUnsaved + Unsaved(activeTranscript)
                               ELSE 2 * Unsaved(activeTranscript)),
          persist \in Persists :
          Commit(LoadTranscript([St("LoadTranscript", t, IF mediaExists THEN 1 ELSE 0, answers)
                                    EXCEPT !.persist = persist],
                                e, t, mediaExists))

\* GetMediaLength(entire): ret is the length it returns
GetMediaLengthOp(entire) ==
    /\ Ready
    /\ \E persist \in Persists :
          LET s == [St("GetMediaLength", entire, 0, <<>>) EXCEPT !.persist = persist]
          IN Commit([GetMediaLength(s, entire) EXCEPT !.ret = MediaLength(s, entire)])

LoadClipByNumberOp(c, mediaExists) ==
    /\ Ready
    /\ \E answers \in Answers(AllUnsaved + Unsaved(activeTranscript)) :
          Commit(LoadClipByNumber(St("LoadClipByNumber", c, IF mediaExists THEN 1 ELSE 0, answers),
                                  c, mediaExists))

\* A timer started by wx.CallLater(50 or 200, self.UpdateSelectionTextLater, winNum) runs
\* out.  The timers are not kept in the state: SetVideoSelection starts one for
\* activeTranscript and MultiSelect one for every transcriptWindowNumber, so a callback
\* can be pending for any of these numbers, and it runs between any two handlers.
UpdateSelectionTextLaterOp(winNum) ==
    /\ Len(TranscriptWindow) > 0
    /\ Commit(UpdateSelectionTextLater(St("UpdateSelectionTextLater", winNum, 0, <<>>), winNum))

\* The video window reports its position
UpdateVideoPositionOp(currentPosition, changed) ==
    /\ ~PendingEvents
    /\ Len(TranscriptWindow) > 0
    /\ Commit(UpdateVideoPosition(St("UpdateVideoPosition", currentPosition, changed, <<>>),
                                  currentPosition, changed))

\* File > Save, or any caller of SaveTranscript; without a prompt there is no answer No
SaveTranscriptOp(prompt, cleardoc, transcriptToSave) ==
    /\ Ready
    /\ transcriptToSave \in -1..(Len(TranscriptWindow) - 1)
    /\ \E answers \in Answers(Unsaved(IF transcriptToSave = -1 THEN activeTranscript
                                        ELSE transcriptToSave)) :
          /\ (prompt \/ \A k \in DOMAIN answers : answers[k] # "no")
          /\ Commit(SaveTranscript(St("SaveTranscript", <<prompt, cleardoc>>, transcriptToSave,
                                      answers),
                                   prompt, cleardoc, transcriptToSave))

\* The Propagate Changes button of transcript window i
PropagateChangesOp(i) ==
    /\ Ready
    /\ i \in 0..(Len(TranscriptWindow) - 1)
    /\ \E answers \in Answers(Unsaved(activeTranscript)) :
          Commit(PropagateChanges(St("PropagateChanges", i, 0, answers), i))

SetVideoSelectionOp(start, end) ==
    /\ Ready
    /\ Commit(SetVideoSelection(St("SetVideoSelection", start, end, <<>>), start, end))

\* What a window's editor can report as its selection
\* get_selected_time_range() gives the time codes around the cursor also when no text
\* is selected; end 0 is "no following time code"
SelChoices ==
    { [start |-> 0, end |-> 0, text |-> ""],
      [start |-> 0, end |-> MaxTime, text |-> ""],
      [start |-> 0, end |-> 1, text |-> "a"],
      [start |-> 1, end |-> 2, text |-> "a"],
      [start |-> 2, end |-> MaxTime, text |-> "a"],
      [start |-> 1, end |-> 0, text |-> "a"] }

\* MultiPlay needs a transcript in every window (editor.TranscriptObj is read), and a
\* clip transcript only where the Clip that owns it is loaded
MultiPlayable ==
    /\ Ready
    /\ \A k \in 1..Len(TranscriptWindow) :
          /\ TranscriptWindow[k].tr # 0
          /\ ClipNumOf(TranscriptWindow[k].tr) # 0 =>
                /\ currentObj.kind = "Clip"
                /\ k <= Len(ClipTranscripts(currentObj.number))

MultiPlayOp(sels) ==
    /\ MultiPlayable
    /\ Commit(MultiPlay(St("MultiPlay", sels, 0, <<>>), sels))

\* The callers read the record number from the result: ret is originalTranscriptNum
GetTranscriptSelectionInfoOp(sel) ==
    /\ MultiPlayable
    /\ LET s == St("GetTranscriptSelectionInfo", sel, 0, <<>>)
       IN Commit([s EXCEPT !.ret = GetTranscriptSelectionInfo(s, sel).num])

\* The k-th event of the log carries, as w, the originalTranscriptNum of the k-th result
GetMultipleTranscriptSelectionInfoOp(sels) ==
    /\ MultiPlayable
    /\ LET s == St("GetMultipleTranscriptSelectionInfo", sels, 0, <<>>)
           results == GetMultipleTranscriptSelectionInfo(s, sels)
       IN Commit([s EXCEPT !.log = [k \in 1..Len(results) |->
                                        Ev("originalTranscriptNum", results[k].num, "")]])

PlayOp ==
    /\ Ready
    /\ \E setback \in BOOLEAN, videoPos \in 0..MaxTime :
          Commit(Play(St("Play", setback, videoPos, <<>>), setback, videoPos))

PlayPauseOp ==
    /\ Ready
    /\ \E setback \in BOOLEAN, videoPos \in 0..MaxTime :
          Commit(PlayPause(St("PlayPause", setback, videoPos, <<>>), setback, videoPos))

SetVideoStartPointOp(TimeCode) ==
    /\ Ready
    /\ Commit(SetVideoStartPoint(St("SetVideoStartPoint", TimeCode, 0, <<>>), TimeCode))

SetVideoEndPointOp(TimeCode) ==
    /\ Ready
    /\ Commit(SetVideoEndPoint(St("SetVideoEndPoint", TimeCode, 0, <<>>), TimeCode))

StopOp ==
    /\ Ready
    /\ VideoWindow.state \in {"Playing", "Paused"}
    /\ Commit(Stop(St("Stop", 0, 0, <<>>)))

PauseOp ==
    /\ Ready
    /\ VideoWindow.state = "Playing"
    /\ Commit(Pause(St("Pause", 0, 0, <<>>)))

\* The video window reports a change of its play state
UpdatePlayStateOp(playState) ==
    /\ Ready
    /\ Commit(UpdatePlayState(St("UpdatePlayState", playState, 0, <<>>), playState))

\* The user picks a presentation mode in the Options menu
SetPresentationMode(m) ==
    /\ Ready
    /\ MenuWindow.present # m
    /\ Commit([St("SetPresentationMode", 0, 0, <<>>) EXCEPT !.MenuWindow.present = m])

\* Register(PlayAllClips=...): the Play All Clips dialog registers (TRUE) or removes
\* (None) itself
RegisterPlayAllClips(w) ==
    /\ Ready
    /\ PlayAllClipsWindow # w
    /\ Commit([St("Register", 0, 0, <<>>) EXCEPT !.PlayAllClipsWindow = w])

(***************************************************************************)
(* The Transcript object: its methods, and what other users do to the      *)
(* table in the multi-user version                                         *)
(***************************************************************************)
\* The IDs and the texts a transcript is given
Ids == {"", "A", "C"}
LongText == [k \in 1..(TextLimit + 1) |-> "x"]
Texts == {<<"x">>, LongText}
Tokens == {"T", ">", "B", " ", "x"}
\* The greatest length of a text handed to GetTranscriptWithoutTimeCodes
MaxLen == 3
RTFTexts == UNION {[1..n -> Tokens] : n \in 0..MaxLen}

\* A method of the Transcript object returns or raises
Returned(op, a, r) ==
    /\ TranscriptObj' = r.obj
    /\ Transcripts2' = r.db
    /\ last' = [op |-> op, a |-> a, b |-> 0, ret |-> IF r.raised = "" THEN 1 ELSE 0,
                log |-> r.log]
    /\ UNCHANGED <<sessionVars, singleUserVersion, newText, logon>>

\* Transcript(num)
TranscriptLoad(num) ==
    Returned("Transcript", num, db_load_by_num(Call(ClearedTranscript, Transcripts2), num))

\* Transcript() and the properties the Add Transcript form gives it
TranscriptNew(id, clip, text) ==
    Returned("Transcript()", clip,
             Call([ClearedTranscript EXCEPT !.id = id, !.episode_num = 1, !.clip_num = clip,
                                            !.text = text], Transcripts2))

\* The properties form or the editor changes the object in memory
TranscriptEdit(id, text) ==
    /\ TranscriptObj.episode_num # 0
    /\ Returned("edit", 0, Call([TranscriptObj EXCEPT !.id = id, !.text = text], Transcripts2))

TranscriptLock ==
    Returned("Transcript.lock_record", TranscriptObj.number,
             lock_record(Call(TranscriptObj, Transcripts2), singleUserVersion))

TranscriptUnlock ==
    /\ TranscriptObj.isLocked
    /\ Returned("Transcript.unlock_record", TranscriptObj.number,
                unlock_record(Call(TranscriptObj, Transcripts2)))

TranscriptSave ==
    /\ Now(Transcripts2) <= MaxStamp
    /\ NextNum(Transcripts2) <= MaxRec
    /\ Returned("Transcript.db_save", TranscriptObj.number,
                db_save(Call(TranscriptObj, Transcripts2)))

\* Another user of the database changes the table
OtherUser(db) ==
    /\ ~singleUserVersion
    /\ Transcripts2' = db
    /\ last' = [op |-> "other user", a |-> 0, b |-> 0, ret |-> 1, log |-> <<>>]
    /\ UNCHANGED <<sessionVars, singleUserVersion, TranscriptObj, newText, logon>>

OtherUserSaves(num) ==
    /\ Now(Transcripts2) <= MaxStamp
    /\ \E row \in RowsOf(Transcripts2, num) :
          /\ row.RecordLock = ""
          /\ OtherUser((Transcripts2 \ {row})
                           \cup {[row EXCEPT !.LastSaveTime = Now(Transcripts2),
                                             !.RTFText = <<"x", "x">>]})

OtherUserDeletes(num) ==
    \E row \in RowsOf(Transcripts2, num) :
        /\ row.RecordLock = ""
        /\ OtherUser(Transcripts2 \ {row})

OtherUserLocks(num) ==
    \E row \in RowsOf(Transcripts2, num) :
        /\ row.RecordLock = ""
        /\ OtherUser((Transcripts2 \ {row}) \cup {[row EXCEPT !.RecordLock = "other"]})

OtherUserUnlocks(num) ==
    \E row \in RowsOf(Transcripts2, num) :
        /\ row.RecordLock = "other"
        /\ OtherUser((Transcripts2 \ {row}) \cup {[row EXCEPT !.RecordLock = ""]})

\* A step of GetTranscriptWithoutTimeCodes
Stepped(loop) ==
    /\ newText' = loop
    /\ last' = [op |-> "GetTranscriptWithoutTimeCodes", a |-> 0, b |-> 0, ret |-> 1,
                log |-> <<>>]
    /\ UNCHANGED <<sessionVars, singleUserVersion, Transcripts2, TranscriptObj, logon>>

\* The text of the object in memory is set
SetText(text) ==
    /\ newText.pc \in {"idle", "returned"}
    /\ Returned("text", 0, Call([TranscriptObj EXCEPT !.text = text], Transcripts2))

\* newText = self.text
GetTranscriptWithoutTimeCodes ==
    /\ newText.pc \in {"idle", "returned"}
    /\ Stepped([pc |-> "timecodes", text |-> TranscriptObj.text, pass |-> 0])

\* One pass of the first loop, or its break.  A text that outgrows MaxGrow has
\* outgrown the memory: the call ends with a MemoryError.
TimeCodeLoop ==
    /\ newText.pc = "timecodes"
    /\ IF Find(newText.text, "T", 0) = -1
       THEN Stepped([newText EXCEPT !.pc = "tabs", !.pass = 0])
       ELSE IF Len(CutTimeCode(newText.text)) > MaxGrow
       THEN Stepped([newText EXCEPT !.pc = "MemoryError"])
       ELSE Stepped([newText EXCEPT !.text = CutTimeCode(@), !.pass = 1 - @])

\* One pass of the second loop, or its break and the return
TabLoop ==
    /\ newText.pc = "tabs"
    /\ IF Find(newText.text, "B", 0) = -1
       THEN Stepped([newText EXCEPT !.pc = "returned"])
       ELSE Stepped([newText EXCEPT !.text = ReplaceTab(@), !.pass = 1 - @])

Next ==
    \/ OnInit
    \/ \E i \in 0..(MaxWin - 1) : ActivateTranscript(i)
    \/ \E i \in 0..(MaxWin - 1) : EditTranscript(i)
    \/ Idle
    \/ \E i \in 0..(MaxWin - 1) : CloseAdditionalTranscriptOp(i)
    \/ ClearAllWindowsOp
    \/ \E t \in EpisodeTranscriptNums : OpenAdditionalTranscriptOp(t)
    \/ \E e \in AnyEpisode, t \in AnyTranscript, mediaExists \in BOOLEAN :
          LoadTranscriptOp(e, t, mediaExists)
    \/ \E c \in AnyClip, mediaExists \in BOOLEAN : LoadClipByNumberOp(c, mediaExists)
    \/ \E start \in -1..MaxTime, end \in -1..MaxTime : SetVideoSelectionOp(start, end)
    \/ \E TimeCode \in -1..MaxTime : SetVideoStartPointOp(TimeCode)
    \/ \E TimeCode \in -1..MaxTime : SetVideoEndPointOp(TimeCode)
    \/ PlayPauseOp
    \/ \E sels \in [1..Len(TranscriptWindow) -> SelChoices] : MultiPlayOp(sels)
    \/ \E prompt \in BOOLEAN, cleardoc \in BOOLEAN, i \in -1..(MaxWin - 1) :
          SaveTranscriptOp(prompt, cleardoc, i)
    \/ \E i \in 0..(MaxWin - 1) : PropagateChangesOp(i)
    \/ ShutDown
    \/ \E n \in 1..(MaxWin - 1) : ActivateMissingTranscript(n)
    \/ \E currentPosition \in 0..MaxTime, changed \in BOOLEAN :
          UpdateVideoPositionOp(currentPosition, changed)
    \/ \E winNum \in -1..(MaxWin - 1) : UpdateSelectionTextLaterOp(winNum)
    \/ \E entire \in BOOLEAN : GetMediaLengthOp(entire)
    \/ \E sel \in SelChoices : GetTranscriptSelectionInfoOp(sel)
    \/ \E sels \in [1..Len(TranscriptWindow) -> SelChoices] :
          GetMultipleTranscriptSelectionInfoOp(sels)
    \/ PlayOp
    \/ StopOp
    \/ PauseOp
    \/ \E playState \in {"Play", "Stop", "Pause"} : UpdatePlayStateOp(playState)
    \/ \E m \in {"All", "Video", "Trans"} : SetPresentationMode(m)
    \/ \E w \in BOOLEAN : RegisterPlayAllClips(w)
    \/ \E num \in 1..MaxRec : TranscriptLoad(num)
    \/ \E id \in Ids, clip \in 0..1, text \in Texts : TranscriptNew(id, clip, text)
    \/ \E id \in Ids, text \in Texts : TranscriptEdit(id, text)
    \/ TranscriptLock
    \/ TranscriptUnlock
    \/ TranscriptSave
    \/ \E num \in 1..MaxRec : OtherUserSaves(num)
    \/ \E num \in 1..MaxRec : OtherUserDeletes(num)
    \/ \E num \in 1..MaxRec : OtherUserLocks(num)
    \/ \E num \in 1..MaxRec : OtherUserUnlocks(num)
    \/ \E text \in RTFTexts : SetText(text)
    \/ GetTranscriptWithoutTimeCodes
    \/ TimeCodeLoop
    \/ TabLoop
    \/ \E connectionEstablished \in BOOLEAN : OnInitStart(connectionEstablished)
    \/ \E exists \in BOOLEAN, answer \in {"yes", "no"} : OnInitPass(exists, answer)
    \/ \E serverUp \in BOOLEAN : OnInitEnd(serverUp)
    \/ GetNewDatabaseStart
    \/ \E exists \in BOOLEAN, answer \in {"yes", "no"} : GetNewDatabasePass(exists, answer)
    \/ GetNewDatabaseEnd

Spec == Init /\ [][Next]_vars

(***************************************************************************)
(* The program's handlers in five groups.   Each specification below runs   *)
(* the handlers of one group from the constructor's state; its behaviours  *)
(* are behaviours of Spec.                                                 *)
(***************************************************************************)
\* The transcript windows and the focus: no transcript is ever edited
NextWindows ==
    \/ OnInit
    \/ \E i \in 0..(MaxWin - 1) : ActivateTranscript(i)
    \/ Idle
    \/ \E i \in 0..(MaxWin - 1) : CloseAdditionalTranscriptOp(i)
    \/ ClearAllWindowsOp
    \/ \E t \in EpisodeTranscriptNums : OpenAdditionalTranscriptOp(t)
    \/ \E e \in EpisodeNums, t \in EpisodeTranscriptNums, mediaExists \in BOOLEAN :
          LoadTranscriptOp(e, t, mediaExists)
    \/ \E c \in ClipNums, mediaExists \in BOOLEAN : LoadClipByNumberOp(c, mediaExists)

SpecWindows == Init /\ [][NextWindows]_vars

\* The transcript windows, edits and the save prompts
NextSave ==
    \/ OnInit
    \/ \E i \in 0..(MaxWin - 1) : EditTranscript(i)
    \/ Idle
    \/ \E i \in 0..(MaxWin - 1) : CloseAdditionalTranscriptOp(i)
    \/ ClearAllWindowsOp
    \/ \E t \in EpisodeTranscriptNums : OpenAdditionalTranscriptOp(t)
    \/ \E e \in EpisodeNums, t \in EpisodeTranscriptNums, mediaExists \in BOOLEAN :
          LoadTranscriptOp(e, t, mediaExists)
    \/ \E c \in ClipNums, mediaExists \in BOOLEAN : LoadClipByNumberOp(c, mediaExists)

SpecSave == Init /\ [][NextSave]_vars

\* The video selection and playback; no title update is ever pending here
NextVideo ==
    \/ OnInit
    \/ \E e \in EpisodeNums, mediaExists \in BOOLEAN : LoadTranscriptOp(e, 1, mediaExists)
    \/ \E c \in ClipNums, mediaExists \in BOOLEAN : LoadClipByNumberOp(c, mediaExists)
    \/ \E start \in -1..MaxTime, end \in -1..MaxTime : SetVideoSelectionOp(start, end)
    \/ \E TimeCode \in -1..MaxTime : SetVideoStartPointOp(TimeCode)
    \/ \E TimeCode \in -1..MaxTime : SetVideoEndPointOp(TimeCode)
    \/ PlayOp
    \/ PlayPauseOp
    \/ StopOp
    \/ PauseOp

SpecVideo == Init /\ [][NextVideo]_vars

\* Playing the selections of several transcripts
NextMultiPlay ==
    \/ OnInit
    \/ Idle
    \/ \E i \in 0..(MaxWin - 1) : CloseAdditionalTranscriptOp(i)
    \/ OpenAdditionalTranscriptOp(2)
    \/ \E e \in EpisodeNums, mediaExists \in BOOLEAN : LoadTranscriptOp(e, 1, mediaExists)
    \/ \E c \in ClipNums, mediaExists \in BOOLEAN : LoadClipByNumberOp(c, mediaExists)
    \/ \E sels \in [1..Len(TranscriptWindow) -> SelChoices] : MultiPlayOp(sels)

SpecMultiPlay == Init /\ [][NextMultiPlay]_vars

\* The presentation modes
NextPresentation ==
    \/ OnInit
    \/ Idle
    \/ OpenAdditionalTranscriptOp(1)
    \/ \E playState \in {"Play", "Stop", "Pause"} : UpdatePlayStateOp(playState)
    \/ \E m \in {"All", "Video", "Trans"} : SetPresentationMode(m)
    \/ \E w \in BOOLEAN : RegisterPlayAllClips(w)

SpecPresentation == Init /\ [][NextPresentation]_vars

(***************************************************************************)
(* C1.  After OnInit's Register, OpenAdditionalTranscript,                 *)
(* CloseAdditionalTranscript, LoadTranscript, LoadClipByNumber and         *)
(* ClearAllWindows, activeTranscript is an index of an open window         *)
(* whenever a window is open, and it is -1 if and only if none is open.    *)
(* CloseAdditionalTranscript breaks this: see C1_ActiveInRange's trace.    *)
(***************************************************************************)
WindowOps == {"OnInit", "OpenAdditionalTranscript", "CloseAdditionalTranscript",
              "LoadTranscript", "LoadClipByNumber", "ClearAllWindows"}

\* C1: 0 <= activeTranscript < len(TranscriptWindow) when a window is open, -1 iff none
C1_ActiveInRange ==
    last.op \in WindowOps =>
        /\ Len(TranscriptWindow) > 0 =>
               (0 <= activeTranscript /\ activeTranscript < Len(TranscriptWindow))
        /\ (activeTranscript = -1) <=> (Len(TranscriptWindow) = 0)

(***************************************************************************)
(* C2.  Once a handler and the deferred title updates are done: with more  *)
(* than one window exactly one title is decorated, the one at              *)
(* activeTranscript; with at most one window no title is decorated.        *)
(***************************************************************************)
Decorated == {k \in 1..Len(TranscriptWindow) : TranscriptWindow[k].starred}

\* C2: exactly the active window's title is decorated when several windows are open
C2_OneDecorated ==
    ~PendingEvents =>
        IF Len(TranscriptWindow) > 1
        THEN Decorated = {activeTranscript + 1}
        ELSE Decorated = {}

(***************************************************************************)
(* C3.  Right after CloseAdditionalTranscript the window-number tags, on   *)
(* the TranscriptionUI object and on its dialog, are 0..N-1 in list order. *)
(***************************************************************************)
\* C3: after a close, window k carries the tag k on the object and on the dialog
C3_TagsContiguous ==
    last.op = "CloseAdditionalTranscript" =>
        \A k \in 1..Len(TranscriptWindow) :
            /\ TranscriptWindow[k].transcriptWindowNumber = k - 1
            /\ TranscriptWindow[k].dlgWindowNumber = k - 1

\* A close of the first of three windows has returned: two tags had to change
C3_Witness ==
    /\ last.op = "CloseAdditionalTranscript"
    /\ last.a = 0
    /\ Len(TranscriptWindow) = 2

(***************************************************************************)
(* C4.  CloseAdditionalTranscript(i) with several windows open: closing    *)
(* the active window makes window 0 active; closing another window leaves  *)
(* the window that was active the active one, at its index after the       *)
(* removal.                                                                *)
(***************************************************************************)
\* C4: the active window after closing window i, for every i and every active index
C4_ActiveAfterClose ==
    [][last'.op = "CloseAdditionalTranscript" =>
          IF activeTranscript = last'.a
          THEN activeTranscript' = 0
          ELSE activeTranscript' = IF activeTranscript > last'.a
                                   THEN activeTranscript - 1
                                   ELSE activeTranscript]_vars

(***************************************************************************)
(* C5.  LoadClipByNumber on a clip with n transcripts whose media file     *)
(* exists ends with n windows, window k showing the clip's k-th            *)
(* transcript.  The spec has activeTranscript = 0 at the end; the code     *)
(* leaves the window opened last active, activeTranscript = n - 1.         *)
(***************************************************************************)
ClipLoaded ==
    /\ last.op = "LoadClipByNumber"
    /\ last.b = 1

ClipWindows ==
    /\ Len(TranscriptWindow) = Len(ClipTranscripts(last.a))
    /\ \A k \in 1..Len(TranscriptWindow) : TranscriptWindow[k].tr = ClipTranscripts(last.a)[k]

\* C5, as the code has it: n windows in ref order, the last one active
C5_ClipWindowsLastActive ==
    ClipLoaded => (ClipWindows /\ activeTranscript = Len(ClipTranscripts(last.a)) - 1)

\* C5, as the spec has it: n windows in ref order, the first one active
C5_ClipWindowsFirstActive ==
    ClipLoaded => (ClipWindows /\ activeTranscript = 0)

\* A clip with MaxWin transcripts was loaded over a session with unsaved changes
C5_Witness ==
    /\ ClipLoaded
    /\ last.a = MaxWin
    /\ \E k \in 1..Len(last.log) : last.log[k].e = "prompt"
    /\ Len(TranscriptWindow) = MaxWin

(***************************************************************************)
(* C6.  In LoadTranscript, LoadClipByNumber and ClearAllWindows a          *)
(* transcript is cleared, or its window closed, only when it is            *)
(* unmodified, saved, or given up by a No to its save prompt.              *)
(***************************************************************************)
LoadOps == {"LoadTranscript", "LoadClipByNumber", "ClearAllWindows"}

\* C6: no unsaved changes are dropped without the user's No
C6_NoSilentLoss ==
    last.op \in LoadOps =>
        \A k \in 1..Len(last.log) :
            last.log[k].e \in {"clear", "close"} => last.log[k].x # "lost"

(***************************************************************************)
(* C7.  LoadTranscript while the active transcript is modified, the user   *)
(* answering No: the transcript is cleared, the load goes on, and nothing  *)
(* is saved for that window.                                               *)
(***************************************************************************)
\* LoadTranscript asked about the active window first, and the answer was No
DeclinedLoad ==
    /\ last.op = "LoadTranscript"
    /\ last.log # <<>>
    /\ last.log[1] = Ev("prompt", activeTranscript, "no")

\* C7: after the No the window is cleared, never saved, and the episode is loaded
C7_DeclineClearsAndLoads ==
    DeclinedLoad =>
        /\ Len(last.log) >= 2
        /\ last.log[2] = Ev("clear", activeTranscript, "declined")
        /\ \A k \in 1..Len(last.log) :
               ~(last.log[k].e = "save" /\ last.log[k].w = activeTranscript)
        /\ currentObj.kind = "Episode"
        /\ last.b = 1 =>
               /\ TranscriptWindow[activeTranscript + 1].tr = last.a
               /\ ~TranscriptWindow[activeTranscript + 1].modified

\* The No was given and the new transcript is in the window
C7_Witness ==
    /\ DeclinedLoad
    /\ last.b = 1
    /\ TranscriptWindow[activeTranscript + 1].tr = last.a

(***************************************************************************)
(* C8.  SetVideoSelection(s, e) with e <= 0 and a subject loaded leaves    *)
(* VideoEndPoint at the subject's natural end: the duration of the         *)
(* episode's media file, or the clip's clip_stop; never at a value <= 0.   *)
(***************************************************************************)
UnboundedSelection ==
    /\ last.op = "SetVideoSelection"
    /\ last.b <= 0

\* C8: the stored end is the subject's natural end, never a non-positive value
C8_EndNatural ==
    (UnboundedSelection /\ currentObj.kind # "None") =>
        /\ VideoEndPoint > 0
        /\ currentObj.kind = "Clip" => VideoEndPoint = currentObj.clip_stop
        /\ currentObj.kind = "Episode" => VideoEndPoint = MediaDuration(EpisodeMedia(currentObj.number))

(***************************************************************************)
(* C9.  MultiPlay sets the video selection to the least start and the      *)
(* greatest end of the windows whose selected text is not empty, and       *)
(* starts playback.  The times are the ones                                *)
(* GetMultipleTranscriptSelectionInfo reports.                             *)
(***************************************************************************)
Selected == {k \in 1..Len(last.a) : last.a[k].text # ""}

ReportedStart(sel) ==
    IF sel.start = 0 /\ currentObj.kind = "Clip" THEN currentObj.clip_start ELSE sel.start

ReportedEnd(sel) ==
    IF sel.end <= 0
    THEN IF currentObj.kind = "Clip" THEN currentObj.clip_stop ELSE VideoWindow.mediaLength
    ELSE sel.end

\* C9: (min start, max end) over the non-empty selections; then Play
C9_MultiPlayUnion ==
    (last.op = "MultiPlay" /\ Selected # {}) =>
        /\ \E k \in Selected : VideoStartPoint = ReportedStart(last.a[k])
        /\ \A k \in Selected : VideoStartPoint <= ReportedStart(last.a[k])
        /\ \E k \in Selected : VideoEndPoint = ReportedEnd(last.a[k])
        /\ \A k \in Selected : VideoEndPoint >= ReportedEnd(last.a[k])
        /\ \E k \in 1..Len(last.log) : last.log[k].e = "play"

(***************************************************************************)
(* C10.  UpdatePlayState(PLAY) in a presentation mode other than All       *)
(* Windows, with a snapshot present, leaves WindowPositions as it is; a    *)
(* snapshot is taken only when WindowPositions is empty.                   *)
(***************************************************************************)
\* C10: a PLAY never replaces a snapshot, and a snapshot replaces only the empty list
C10_SnapshotKept ==
    [][/\ (/\ last'.op = "UpdatePlayState"
            /\ last'.a = "Play"
            /\ MenuWindow.present # "All"
            /\ WindowPositions # <<>>) => WindowPositions' = WindowPositions
       /\ (WindowPositions' # <<>> /\ WindowPositions' # WindowPositions) =>
              WindowPositions = <<>>]_vars

\* A PLAY has arrived in a presentation mode while the snapshot in place was older than
\* the latest transcript window, and the video window was no longer where the snapshot
\* has it
C10_Witness ==
    /\ last.op = "UpdatePlayState"
    /\ last.a = "Play"
    /\ MenuWindow.present # "All"
    /\ WindowPositions # <<>>
    /\ Len(WindowPositions[4]) < Len(TranscriptWindow)
    /\ WindowPositions[3] # VideoWindow.dims

\* Presentation mode while transcript windows are opened and closed
NextRestore ==
    \/ OnInit
    \/ Idle
    \/ OpenAdditionalTranscriptOp(1)
    \/ \E i \in 0..(MaxWin - 1) : CloseAdditionalTranscriptOp(i)
    \/ \E playState \in {"Play", "Stop"} : UpdatePlayStateOp(playState)
    \/ \E m \in {"All", "Trans"} : SetPresentationMode(m)

SpecRestore == Init /\ [][NextRestore]_vars

(***************************************************************************)
(* C11.  UpdatePlayState(STOP) with a snapshot present.  With no Play All  *)
(* Clips window registered, the menu, visualization, video, transcript     *)
(* and data windows are all visible afterwards, each at the geometry the   *)
(* snapshot has for it, and WindowPositions is empty.  With a Play All     *)
(* Clips window registered, no geometry is restored and the snapshot is    *)
(* kept.                                                                   *)
(***************************************************************************)
Geometry == <<VisualizationWindow.dims, VideoWindow.dims, DataWindow.dims,
              [k \in 1..Len(TranscriptWindow) |-> TranscriptWindow[k].dims]>>

\* C11: STOP restores the snapshot exactly and discards it, unless Play All Clips is on
C11_StopRestores ==
    [][(/\ last'.op = "UpdatePlayState"
        /\ last'.a = "Stop"
        /\ WindowPositions # <<>>) =>
           IF ~PlayAllClipsWindow
           THEN /\ MenuWindow'.shown
                /\ VisualizationWindow'.shown
                /\ DataWindow'.shown
                /\ \A k \in 1..Len(TranscriptWindow') : TranscriptWindow'[k].shown
                /\ MenuRect = WindowPositions[1]
                /\ VisualizationWindow'.dims = WindowPositions[2]
                /\ VideoWindow'.dims = WindowPositions[3]
                /\ DataWindow'.dims = WindowPositions[5]
                /\ \A k \in 1..Len(TranscriptWindow') :
                       k <= Len(WindowPositions[4]) =>
                           TranscriptWindow'[k].dims = WindowPositions[4][k]
                /\ WindowPositions' = <<>>
           ELSE /\ Geometry' = Geometry
                /\ WindowPositions' = WindowPositions]_vars

(***************************************************************************)
(* C12.  The stored video selection is ordered: VideoStartPoint <=         *)
(* VideoEndPoint whenever both are positive, after LoadTranscript,         *)
(* LoadClipByNumber, SetVideoSelection, SetVideoStartPoint,                *)
(* SetVideoEndPoint, MultiPlay and Play.                                   *)
(***************************************************************************)
\* C12: a positive start never lies after a positive end
C12_SelectionOrdered ==
    (VideoStartPoint > 0 /\ VideoEndPoint > 0) => VideoStartPoint <= VideoEndPoint

(***************************************************************************)
(* C13.  While a Clip is the current object the stored selection lies      *)
(* inside the clip, clip_start <= VideoStartPoint and VideoEndPoint <=     *)
(* clip_stop, right after LoadClipByNumber and after every later           *)
(* SetVideoSelection, MultiPlay and Play.                                  *)
(***************************************************************************)
ClipSelectionOps == {"LoadClipByNumber", "SetVideoSelection", "MultiPlay", "Play"}

\* C13: the selection stays within [clip_start, clip_stop]
C13_SelectionInClip ==
    (currentObj.kind = "Clip" /\ last.op \in ClipSelectionOps) =>
        /\ currentObj.clip_start <= VideoStartPoint
        /\ VideoEndPoint <= currentObj.clip_stop

(***************************************************************************)
(* C14.  Play with a subject loaded and an unbounded stored end            *)
(* (VideoEndPoint <= 0): before VideoWindow.Play() is called the end is    *)
(* set to the episode's tape_length or the clip's clip_stop, so the        *)
(* video is never started with an unbounded stored end.                    *)
(***************************************************************************)
\* C14: Play resolves a non-positive end against the loaded subject
C14_PlayResolvesEnd ==
    [][(/\ last'.op = "Play"
        /\ currentObj.kind # "None"
        /\ VideoEndPoint <= 0) =>
           /\ VideoEndPoint' > 0
           /\ VideoEndPoint' = IF currentObj.kind = "Episode"
                                THEN currentObj.tape_length
                                ELSE currentObj.clip_stop]_vars

(***************************************************************************)
(* C15.  PlayPause is a state machine over the state of the video window:  *)
(* from Playing it pauses and does not play; from Paused or Stopped it     *)
(* plays, passing on setback; when no media is loaded it changes nothing   *)
(* and calls nothing on the video window.                                  *)
(***************************************************************************)
\* Everything but the history variable
Session == <<TranscriptWindow, TranscriptNum, activeTranscript, currentObj, VideoFilename,
             VideoStartPoint, VideoEndPoint, WindowPositions, shuttingDown,
             PlayAllClipsWindow, VideoWindow, MenuWindow, VisualizationWindow, DataWindow,
             autoArrange, PlatformInfo, EpisodeDB, recordVars>>

\* C15: PlayPause pauses when playing, plays when paused or stopped, else does nothing
C15_PlayPauseMachine ==
    [][last'.op = "PlayPause" =>
          IF VideoWindow.state = "Playing"
          THEN /\ last'.log = <<Ev("pause", 0, "")>>
               /\ VideoWindow'.state = "Paused"
          ELSE IF VideoWindow.state \in {"Paused", "Stopped"}
          THEN /\ last'.log[Len(last'.log)] = Ev("play", 0, IF last'.a THEN "setback" ELSE "")
               /\ Len(last'.log) = IF last'.a THEN 2 ELSE 1
               /\ last'.a => last'.log[1].e = "SetCurrentVideoPosition"
               /\ VideoWindow'.state = "Playing"
          ELSE /\ last'.log = <<>>
               /\ Session' = Session]_vars

\* PlayPause has paused a playing video
C15_Witness ==
    /\ last.op = "PlayPause"
    /\ last.log = <<Ev("pause", 0, "")>>
    /\ VideoWindow.state = "Paused"

(***************************************************************************)
(* C16.  LoadTranscript of an episode whose media file cannot be found:    *)
(* currentObj is not changed to the new Episode by the call, and the       *)
(* transcript is nevertheless loaded in the transcript window.             *)
(***************************************************************************)
\* C16: a LoadTranscript without media keeps currentObj and still shows the transcript
C16_MissingMediaKeepsSubject ==
    [][(last'.op = "LoadTranscript" /\ last'.b = 0) =>
           /\ currentObj' = currentObj
           /\ \E k \in 1..Len(TranscriptWindow') : TranscriptWindow'[k].tr = last'.a]_vars

(***************************************************************************)
(* C17.  After a LoadTranscript whose media load succeeds, currentObj is   *)
(* the requested Episode and window 0 (TranscriptWindow[0] and             *)
(* TranscriptNum[0]) holds the loaded transcript, whatever activeTranscript *)
(* was when the call was made.                                             *)
(***************************************************************************)
\* C17: a successful LoadTranscript leaves the transcript in window 0
C17_LoadedInWindowZero ==
    (last.op = "LoadTranscript" /\ last.b = 1) =>
        /\ currentObj.kind = "Episode"
        /\ currentObj.number \in EpisodeNums
        /\ TranscriptWindow[1].tr = last.a
        /\ TranscriptNum[1] = last.a

\* C17, as the program has it: the transcript is loaded in the window that is active,
\* which is window 0 only when activeTranscript was 0 at the call; an additional
\* window that was active stays open and active, and window 0 keeps what it showed
C17_LoadedInActiveWindow ==
    [][(last'.op = "LoadTranscript" /\ last'.b = 1) =>
           /\ \E e \in EpisodeNums : currentObj' = EpisodeObj(e)
           /\ TranscriptWindow'[Ix(activeTranscript', Len(TranscriptWindow'))].tr = last'.a
           /\ TranscriptNum'[Ix(activeTranscript', Len(TranscriptNum'))] = last'.a
           /\ activeTranscript = 0 => Len(TranscriptWindow') = 1
           /\ activeTranscript > 0 =>
                  /\ activeTranscript' = activeTranscript
                  /\ Len(TranscriptWindow') = Len(TranscriptWindow)
                  /\ TranscriptWindow'[1].tr = TranscriptWindow[1].tr]_vars

\* A transcript has been loaded in an additional window; window 0 shows another one
C17_Witness ==
    /\ last.op = "LoadTranscript"
    /\ last.b = 1
    /\ activeTranscript > 0
    /\ TranscriptWindow[activeTranscript + 1].tr = last.a
    /\ TranscriptWindow[1].tr \notin {0, last.a}

(***************************************************************************)
(* The loads with record numbers that may not resolve.                     *)
(***************************************************************************)
NextLookup ==
    \/ OnInit
    \/ Idle
    \/ \E i \in 0..(MaxWin - 1) : ActivateTranscript(i)
    \/ EditTranscript(0)
    \/ OpenAdditionalTranscriptOp(2)
    \/ \E e \in AnyEpisode, t \in AnyTranscript, mediaExists \in BOOLEAN :
          LoadTranscriptOp(e, t, mediaExists)
    \/ \E c \in AnyClip, mediaExists \in BOOLEAN : LoadClipByNumberOp(c, mediaExists)

SpecLookup == Init /\ [][NextLookup]_vars

(***************************************************************************)
(* C18.  When an identifier does not resolve (series, episode or           *)
(* transcript in LoadTranscript, clip number in LoadClipByNumber) the      *)
(* operation is aborted with the not-found error and the session is as it  *)
(* was before the call: currentObj, the open transcript windows and what   *)
(* they show, VideoStartPoint, VideoEndPoint and VideoFilename.            *)
(***************************************************************************)
\* The handler that ran last ended in a RecordNotFoundError
NotFound(h) == \E k \in 1..Len(h.log) : h.log[k].e = "RecordNotFoundError"

\* C18: a load that ends in RecordNotFoundError leaves the session as it was
C18_NotFoundChangesNothing ==
    [][NotFound(last') =>
           /\ currentObj' = currentObj
           /\ TranscriptWindow' = TranscriptWindow
           /\ TranscriptNum' = TranscriptNum
           /\ VideoStartPoint' = VideoStartPoint
           /\ VideoEndPoint' = VideoEndPoint
           /\ VideoFilename' = VideoFilename]_vars

(***************************************************************************)
(* Saving and propagating the changes of edited transcripts.               *)
(***************************************************************************)
NextPropagate ==
    \/ OnInit
    \/ Idle
    \/ \E i \in 0..(MaxWin - 1) : EditTranscript(i)
    \/ OpenAdditionalTranscriptOp(2)
    \/ \E e \in EpisodeNums : LoadTranscriptOp(e, 1, TRUE)
    \/ \E c \in ClipNums : LoadClipByNumberOp(c, TRUE)
    \/ \E prompt \in BOOLEAN, cleardoc \in BOOLEAN, i \in -1..(MaxWin - 1) :
          SaveTranscriptOp(prompt, cleardoc, i)
    \/ \E i \in 0..(MaxWin - 1) : PropagateChangesOp(i)

SpecPropagate == Init /\ [][NextPropagate]_vars

(***************************************************************************)
(* C19.  PropagateChanges starts a propagation tool (episode or clip) only *)
(* when the active transcript was unmodified or has been saved             *)
(* successfully; when the user declines the save prompt only an            *)
(* information message is shown, no tool is started, and no transcript     *)
(* content or session state is changed.                                    *)
(***************************************************************************)
\* The handler that ran last made the call e
Called(h, e) == \E k \in 1..Len(h.log) : h.log[k].e = e
\* It made the call e with the argument x
CalledWith(h, e, x) == \E k \in 1..Len(h.log) : h.log[k].e = e /\ h.log[k].x = x
\* What the transcript windows show, and whether it is edited
Contents(tw) == [k \in 1..Len(tw) |-> <<tw[k].tr, tw[k].modified>>]

\* C19: a propagation tool is started only after a clean or saved transcript; a
\* declined prompt ends in the information message alone
C19_PropagateOnlySaved ==
    [][last'.op = "PropagateChanges" =>
           /\ Called(last', "propagate") =>
                  \/ ~TranscriptWindow[Ix(activeTranscript, Len(TranscriptWindow))].modified
                  \/ CalledWith(last', "save", "ok")
           /\ CalledWith(last', "prompt", "no") =>
                  /\ Called(last', "info")
                  /\ ~Called(last', "propagate")
                  /\ ~Called(last', "save")
                  /\ Contents(TranscriptWindow') = Contents(TranscriptWindow)
                  /\ <<currentObj, activeTranscript, VideoFilename, VideoStartPoint,
                        VideoEndPoint>>' =
                     <<currentObj, activeTranscript, VideoFilename, VideoStartPoint,
                       VideoEndPoint>>]_vars

(***************************************************************************)
(* C20.  SaveTranscript returns 1 exactly when the target transcript was   *)
(* unmodified or was saved, and 0 exactly when the user chose to discard   *)
(* the changes; with cleardoc=1 the transcript is cleared if and only if   *)
(* the user chose not to save; the transcript acted on is                  *)
(* transcriptToSave, or the active transcript when transcriptToSave is -1. *)
(***************************************************************************)
\* The position of the window SaveTranscript is asked to act on
SaveTarget == Ix(IF last'.b = -1 THEN activeTranscript ELSE last'.b, Len(TranscriptWindow))

\* C20: the result of SaveTranscript tells whether the target is safe, and only the
\* target is prompted for, saved or cleared
C20_SaveResult ==
    [][last'.op = "SaveTranscript" =>
           /\ last'.ret \in {0, 1}
           /\ last'.ret = 1 <=>
                  \/ ~TranscriptWindow[SaveTarget].modified
                  \/ CalledWith(last', "save", "ok")
           /\ last'.ret = 0 <=> CalledWith(last', "prompt", "no")
           /\ last'.a[2] => (Called(last', "clear") <=> CalledWith(last', "prompt", "no"))
           /\ \A k \in 1..Len(last'.log) : last'.log[k].w = SaveTarget - 1
           /\ \A k \in 1..Len(TranscriptWindow) :
                  k # SaveTarget => Contents(TranscriptWindow')[k] = Contents(TranscriptWindow)[k]]_vars

(***************************************************************************)
(* The focus changes while the application shuts down.                     *)
(***************************************************************************)
NextShutDown ==
    \/ OnInit
    \/ Idle
    \/ \E t \in EpisodeTranscriptNums : OpenAdditionalTranscriptOp(t)
    \/ \E i \in 0..(MaxWin - 1) : ActivateTranscript(i)
    \/ \E i \in 0..(MaxWin - 1) : CloseAdditionalTranscriptOp(i)
    \/ ShutDown

SpecShutDown == Init /\ [][NextShutDown]_vars

(***************************************************************************)
(* C21.  Once shuttingDown is true, setting activeTranscript performs no   *)
(* title decoration on any transcript window: the '**' markers are neither *)
(* removed nor added, at once or deferred; the stored active index is      *)
(* still updated.                                                          *)
(***************************************************************************)
\* The title decoration of the windows: the markers and the pending removals
Decoration(tw) == [k \in 1..Len(tw) |-> <<tw[k].starred, tw[k].strip>>]

\* C21: while shutting down a focus change decorates no title and stores the index
C21_NoDecorationWhenShuttingDown ==
    [][(shuttingDown /\ last'.op = "ActivateTranscript") =>
           /\ Decoration(TranscriptWindow') = Decoration(TranscriptWindow)
           /\ activeTranscript' = TranscriptWindow[last'.a + 1].transcriptWindowNumber]_vars

(***************************************************************************)
(* The deferred selection labels while windows are opened and closed.      *)
(***************************************************************************)
NextLater ==
    \/ OnInit
    \/ Idle
    \/ OpenAdditionalTranscriptOp(2)
    \/ \E i \in 0..(MaxWin - 1) : CloseAdditionalTranscriptOp(i)
    \/ \E e \in EpisodeNums, mediaExists \in BOOLEAN : LoadTranscriptOp(e, 1, mediaExists)
    \/ \E c \in ClipNums, mediaExists \in BOOLEAN : LoadClipByNumberOp(c, mediaExists)
    \/ \E winNum \in -1..(MaxWin - 1) : UpdateSelectionTextLaterOp(winNum)

SpecLater == Init /\ [][NextLater]_vars

(***************************************************************************)
(* C22.  A deferred UpdateSelectionTextLater(winNum), running after any    *)
(* interleaving of closes and loads, checks winNum against the current     *)
(* window list and does nothing when winNum is no longer a valid index; it *)
(* never indexes TranscriptWindow out of range.                            *)
(***************************************************************************)
\* C22: the deferred callback updates the label of an open window or does nothing
C22_LaterRevalidates ==
    [][last'.op = "UpdateSelectionTextLater" =>
           /\ Session' = Session
           /\ ~Called(last', "IndexError")
           /\ last'.log = IF last'.a \in 0..(Len(TranscriptWindow) - 1)
                         THEN <<Ev("UpdateSelectionText", last'.a, "")>>
                         ELSE <<>>]_vars

\* A transcript was loaded in window 1 with its media (SetVideoSelection started the
\* timer for window 1), the window was closed, and the callback for window 1 did nothing
C22_Witness ==
    /\ last.op = "UpdateSelectionTextLater"
    /\ last.a = 1
    /\ last.log = <<>>
    /\ Len(TranscriptWindow) = 1
    /\ TranscriptWindow[1].tr = 0
    /\ currentObj.kind = "Episode"
    /\ VideoFilename # ""

(***************************************************************************)
(* The video window reports its position while transcripts are shown.      *)
(***************************************************************************)
NextPosition ==
    \/ OnInit
    \/ Idle
    \/ OpenAdditionalTranscriptOp(2)
    \/ \E i \in 0..(MaxWin - 1) : CloseAdditionalTranscriptOp(i)
    \/ \E n \in 1..(MaxWin - 1) : ActivateMissingTranscript(n)
    \/ \E e \in EpisodeNums : LoadTranscriptOp(e, 1, TRUE)
    \/ \E c \in ClipNums : LoadClipByNumberOp(c, TRUE)
    \/ PlayOp
    \/ PauseOp
    \/ \E currentPosition \in 0..MaxTime, changed \in BOOLEAN :
          UpdateVideoPositionOp(currentPosition, changed)

SpecPosition == Init /\ [][NextPosition]_vars

(***************************************************************************)
(* C23.  UpdateVideoPosition(p): when activeTranscript >= the number of    *)
(* transcript windows on entry, it is set to 0 before any window is        *)
(* indexed; p is passed on to the visualization window and to every open   *)
(* transcript window, whatever activeTranscript was.                       *)
(***************************************************************************)
\* The windows the handler that ran last told the position, in order, once each
ToldInOrder(h, n) ==
    LET told == SelectSeq(h.log, LAMBDA ev : ev.e = "UpdatePosition")
        m == Len(told)
    IN /\ m >= n
       /\ \A k \in 1..n : told[m - n + k].w = k - 1

\* C23: the index is made valid first, then the position goes to every window
C23_PositionFanOut ==
    [][last'.op = "UpdateVideoPosition" =>
           /\ activeTranscript >= Len(TranscriptWindow) => activeTranscript' = 0
           /\ activeTranscript < Len(TranscriptWindow) => activeTranscript' = activeTranscript
           /\ ~Called(last', "IndexError")
           /\ \A k \in 1..Len(last'.log) : last'.log[k].w \in 0..(Len(TranscriptWindow) - 1)
           /\ Called(last', "VisualizationUpdatePosition")
           /\ Len(TranscriptWindow') = Len(TranscriptWindow)
           /\ ToldInOrder(last', Len(TranscriptWindow))]_vars

\* The position arrived while activeTranscript named a window that is not open
C23_Witness ==
    /\ last.op = "UpdateVideoPosition"
    /\ Len(TranscriptWindow) = 2
    /\ activeTranscript = 0
    /\ ToldInOrder(last, 2)
    /\ TranscriptWindow[1].starred

(***************************************************************************)
(* C29.  UpdateVideoPosition refreshes the selected-episode-clips tab only *)
(* when a transcript window's position update reports a change and the     *)
(* video is not playing; while the video is playing, or when no window     *)
(* reports a change, the tab is not refreshed.                             *)
(***************************************************************************)
\* C29: the tab is refreshed only on a reported change while the video does not play
C29_RefreshOnlyOnChangeWhenNotPlaying ==
    [][last'.op = "UpdateVideoPosition" =>
           (Called(last', "Refresh") => (last'.b /\ VideoWindow.state # "Playing"))]_vars

\* C29, as the program has it: the tab, when there is one, is refreshed whenever the
\* video is not playing, and while it plays exactly when the active transcript window
\* reports a change of its position
C29_RefreshUnlessPlayingUnchanged ==
    [][last'.op = "UpdateVideoPosition" =>
           (Called(last', "Refresh") <=>
               /\ DataWindow.tabs = "episode"
               /\ (VideoWindow.state # "Playing" \/ last'.b))]_vars

\* The tab was refreshed while the video was playing
C29_Witness ==
    /\ last.op = "UpdateVideoPosition"
    /\ VideoWindow.state = "Playing"
    /\ last.b
    /\ Called(last, "Refresh")

(***************************************************************************)
(* C24.  LoadTranscript resets the session only for a primary load.  When  *)
(* activeTranscript is 0 at the call, every additional transcript window   *)
(* is closed (one window remains) and currentObj is cleared before the new *)
(* Episode is looked up.  When activeTranscript is not 0, the number of     *)
(* open windows is unchanged and every window but the active one keeps     *)
(* what it shows and its record number.                                    *)
(***************************************************************************)
\* C24: a load with activeTranscript = 0 leaves one window; any other load leaves the
\* other windows as they were
C24_ResetOnlyForPrimary ==
    [][last'.op = "LoadTranscript" =>
           IF activeTranscript = 0
           THEN /\ Len(TranscriptWindow') = 1
                /\ CalledWith(last', "RecordNotFoundError", "episode") => currentObj' = NoObj
           ELSE /\ Len(TranscriptWindow') = Len(TranscriptWindow)
                /\ \A k \in 1..Len(TranscriptWindow) :
                       k # Ix(activeTranscript, Len(TranscriptWindow)) =>
                           /\ Contents(TranscriptWindow')[k] = Contents(TranscriptWindow)[k]
                           /\ TranscriptNum'[k] = TranscriptNum[k]]_vars

\* A load with activeTranscript = 0 closed an additional window and cleared currentObj,
\* and then did not find the episode
C24_Witness ==
    /\ last.op = "LoadTranscript"
    /\ Called(last, "close")
    /\ CalledWith(last, "RecordNotFoundError", "episode")
    /\ Len(TranscriptWindow) = 1
    /\ currentObj = NoObj

(***************************************************************************)
(* C25.  LoadClipByNumber always replaces the session: from any state the  *)
(* additional transcript windows are closed before the clip is loaded.  It *)
(* returns True if and only if the clip's media file exists; when it does  *)
(* not, it returns False with exactly one transcript window open, no       *)
(* additional window opened, the data tabs deleted and the database tree   *)
(* selection not moved to the clip.                                        *)
(***************************************************************************)
\* The calls of the handler that ran last, from the first of the calls e on
Since(h, e) ==
    LET first == CHOOSE k \in 1..Len(h.log) :
                     /\ h.log[k].e = e
                     /\ \A j \in 1..(k - 1) : h.log[j].e # e
    IN SubSeq(h.log, first, Len(h.log))

\* C25: a clip load starts from one window and succeeds exactly with its media
C25_ClipLoadReplaces ==
    [][(last'.op = "LoadClipByNumber" /\ ~NotFound(last')) =>
           /\ last'.ret = last'.b
           /\ \* every close comes before the first window is opened
              Called(last', "open") => ~Called([log |-> Since(last', "open")], "close")
           /\ last'.b = 1 =>
                  /\ Len(TranscriptWindow') = Len(ClipTranscripts(last'.a))
                  /\ Called(last', "select_Node")
           /\ last'.b = 0 =>
                  /\ Len(TranscriptWindow') = 1
                  /\ ~Called(last', "open")
                  /\ DataWindow'.tabs = "none"
                  /\ ~Called(last', "select_Node")]_vars

\* A clip load without its media closed the additional windows and opened none
C25_Witness ==
    /\ last.op = "LoadClipByNumber"
    /\ last.b = 0
    /\ last.ret = 0
    /\ Called(last, "close")
    /\ Len(TranscriptWindow) = 1
    /\ DataWindow.tabs = "none"

(***************************************************************************)
(* C26.  OpenAdditionalTranscript appends exactly one window at the end of *)
(* TranscriptWindow, makes it the active one (activeTranscript =           *)
(* len(TranscriptWindow) - 1), records the loaded transcript's record      *)
(* number at that index of TranscriptNum, and leaves the order and the     *)
(* record numbers of the windows that were open unchanged.                 *)
(***************************************************************************)
\* C26: the new window is last and active; the windows before it are as they were
C26_OpenAppends ==
    [][last'.op = "OpenAdditionalTranscript" =>
           /\ Len(TranscriptWindow') = Len(TranscriptWindow) + 1
           /\ Len(TranscriptNum') = Len(TranscriptNum) + 1
           /\ activeTranscript' = Len(TranscriptWindow') - 1
           /\ TranscriptNum'[Len(TranscriptNum')] = last'.a
           /\ TranscriptWindow'[Len(TranscriptWindow')].tr = last'.a
           /\ \A k \in 1..Len(TranscriptWindow) :
                  /\ TranscriptNum'[k] = TranscriptNum[k]
                  /\ Contents(TranscriptWindow')[k] = Contents(TranscriptWindow)[k]
                  /\ TranscriptWindow'[k].transcriptWindowNumber =
                         TranscriptWindow[k].transcriptWindowNumber]_vars

\* A third window was opened; it shows another transcript than the second
C26_Witness ==
    /\ last.op = "OpenAdditionalTranscript"
    /\ Len(TranscriptWindow) = 3
    /\ activeTranscript = 2
    /\ TranscriptNum[3] = last.a
    /\ TranscriptNum[2] # last.a

(***************************************************************************)
(* C27.  For every open window k, TranscriptNum[k] is the record number of *)
(* the transcript that window k shows (0 when the window is cleared),      *)
(* after any sequence of LoadTranscript, LoadClipByNumber,                 *)
(* OpenAdditionalTranscript, CloseAdditionalTranscript and                 *)
(* ClearAllWindows.                                                        *)
(***************************************************************************)
\* C27: TranscriptNum mirrors what the windows show
C27_NumbersMatchWindows ==
    /\ Len(TranscriptNum) = Len(TranscriptWindow)
    /\ \A k \in 1..Len(TranscriptWindow) : TranscriptNum[k] = TranscriptWindow[k].tr

(***************************************************************************)
(* The selection of the transcript windows is read while windows are       *)
(* opened, closed and given the focus.                                     *)
(***************************************************************************)
\* The selections with no following time code
SelEnds == {sel \in SelChoices : sel.end = 0}

NextSelection ==
    \/ OnInit
    \/ Idle
    \/ \E i \in 0..(MaxWin - 1) : ActivateTranscript(i)
    \/ \E i \in 0..(MaxWin - 1) : CloseAdditionalTranscriptOp(i)
    \/ OpenAdditionalTranscriptOp(2)
    \/ \E e \in EpisodeNums : LoadTranscriptOp(e, 1, TRUE)
    \/ \E c \in ClipNums : LoadClipByNumberOp(c, TRUE)
    \/ \E sel \in SelEnds : GetTranscriptSelectionInfoOp(sel)
    \/ \E sels \in [1..Len(TranscriptWindow) -> SelEnds] :
          GetMultipleTranscriptSelectionInfoOp(sels)

SpecSelection == Init /\ [][NextSelection]_vars

(***************************************************************************)
(* C28.  GetTranscriptSelectionInfo and GetMultipleTranscriptSelectionInfo *)
(* report, for a window that shows a clip transcript, the source           *)
(* transcript of that clip transcript, and for a window that shows an      *)
(* episode transcript the transcript's own record number; this for every   *)
(* window and after any closes.                                            *)
(***************************************************************************)
\* The original transcript number of transcript record t
OriginalOf(t) == IF ClipNumOf(t) = 0 THEN t ELSE SourceTranscript(t)

\* C28: each number GetMultipleTranscriptSelectionInfo reports is the original
\* transcript number of the transcript its window shows
C28_ReportsSourceOfWindow ==
    last.op = "GetMultipleTranscriptSelectionInfo" =>
        /\ Len(last.log) = Len(TranscriptWindow)
        /\ \A k \in 1..Len(TranscriptWindow) :
               last.log[k].w = OriginalOf(TranscriptWindow[k].tr)

\* C28, for the active window: GetTranscriptSelectionInfo reports the original
\* transcript number of the transcript the active window shows
C28_ActiveReportsSource ==
    last.op = "GetTranscriptSelectionInfo" =>
        last.ret = OriginalOf(TranscriptWindow[activeTranscript + 1].tr)

(***************************************************************************)
(* C30.  Play(setback=True) gives the video window the position            *)
(* max(start, position - setbackSize) before it plays, where start is 0    *)
(* for an Episode, clip_start for a Clip and the start point of the video  *)
(* window when nothing is loaded; that position is never before start.     *)
(* Play(setback=False) gives the video window no position.                 *)
(***************************************************************************)
\* The start Play measures the setback from, in the state the handler ran in
SubjectStart ==
    IF currentObj.kind = "Episode" THEN 0
    ELSE IF currentObj.kind = "Clip" THEN currentObj.clip_start
    ELSE VideoWindow.start

Max(x, y) == IF x >= y THEN x ELSE y

\* The positions the handler that ran last gave the video window
Positioned == SelectSeq(last.log, LAMBDA ev : ev.e = "SetCurrentVideoPosition")

\* C30: with setback the position is max(start, position - setback), then play;
\* without setback no position is set
C30_SetbackClamped ==
    last.op = "Play" =>
        IF last.a
        THEN /\ Len(last.log) = 2
             /\ last.log[1] = Ev("SetCurrentVideoPosition",
                                 Max(SubjectStart, last.b - transcriptionSetback), "")
             /\ last.log[1].w >= SubjectStart
             /\ last.log[2].e = "play"
        ELSE /\ Positioned = <<>>
             /\ last.log[Len(last.log)].e = "play"

\* Play with setback ran one setback after the start of a clip: the video is put
\* at the start of the clip
C30_Witness ==
    /\ last.op = "Play"
    /\ last.a
    /\ currentObj.kind = "Clip"
    /\ last.b = currentObj.clip_start + transcriptionSetback
    /\ last.log[1].w = currentObj.clip_start

(***************************************************************************)
(* The transcript windows are arranged on either platform, also while the  *)
(* first window has its presentation-mode place.                           *)
(***************************************************************************)
NextArrange ==
    \/ OnInit
    \/ Idle
    \/ OpenAdditionalTranscriptOp(1)
    \/ \E i \in 0..(MaxWin - 1) : CloseAdditionalTranscriptOp(i)
    \/ ClearAllWindowsOp
    \/ \E playState \in {"Play", "Stop"} : UpdatePlayStateOp(playState)
    \/ \E m \in {"All", "Trans"} : SetPresentationMode(m)

SpecArrange == InitAnyPlatform /\ [][NextArrange]_vars

(***************************************************************************)
(* C31.  AutoArrangeTranscriptWindows with N open windows and the height H *)
(* (screen bottom minus top of window 0) gives window k the top            *)
(* top0 + k * (H div N) and the height H div N, all windows the left of    *)
(* window 0 and one width; window 0 has a close box exactly when N > 1.    *)
(***************************************************************************)
\* The handler that ran last ended with the windows auto-arranged
JustArranged ==
    \/ last.op \in {"CloseAdditionalTranscript", "ClearAllWindows"}
    \/ last.op = "OpenAdditionalTranscript" /\ autoArrange

\* The windows are stacked from the top of window 0 in the height H
StackedIn(H) ==
    LET N == Len(TranscriptWindow)
        left == TranscriptWindow[1].dims[1]
        top == TranscriptWindow[1].dims[2]
        width == VisualizationWindow.dims[3]
    IN /\ \A k \in 1..N :
              TranscriptWindow[k].dims = <<left, top + (k - 1) * (H \div N), width, H \div N>>
       /\ TranscriptWindow[1].closeBox <=> N > 1

\* y + h of wx.ClientDisplayRect()
ScreenBottom == ClientDisplayRect[2] + ClientDisplayRect[4]

\* C31 as stated: the height shared out is screen bottom minus top of window 0
C31_StackedBelowFirstTop ==
    JustArranged => StackedIn(ScreenBottom - TranscriptWindow[1].dims[2])

\* C31: the height shared out is screen bottom minus top of window 0, and 20 more
\* on the Mac
C31_StackedWithMacAdjustment ==
    JustArranged =>
        StackedIn((ScreenBottom - TranscriptWindow[1].dims[2]) + (IF wxMac THEN 20 ELSE 0))

\* Three windows were arranged on the Mac: the height does not divide evenly
C31_Witness ==
    /\ JustArranged
    /\ wxMac
    /\ Len(TranscriptWindow) = 3
    /\ TranscriptWindow[3].dims[2] = TranscriptWindow[1].dims[2] + 2 * TranscriptWindow[1].dims[4]
    /\ 3 * TranscriptWindow[1].dims[4] <
           (ScreenBottom - TranscriptWindow[1].dims[2]) + 20

(***************************************************************************)
(* An episode whose length the database does not know yet is loaded; the   *)
(* database can refuse the lock or the save.                               *)
(***************************************************************************)
NextPersist ==
    \/ OnInit
    \/ Idle
    \/ OpenAdditionalTranscriptOp(2)
    \/ \E e \in EpisodeNums, t \in AnyTranscript, mediaExists \in BOOLEAN :
          LoadTranscriptOp(e, t, mediaExists)
    \/ \E TimeCode \in {0, MaxTime} : SetVideoEndPointOp(TimeCode)
    \/ \E entire \in BOOLEAN : GetMediaLengthOp(entire)

SpecPersist == InitUnknownLength /\ [][NextPersist]_vars

(***************************************************************************)
(* C32.  When the length of the loaded episode is unknown and the video    *)
(* window reports one, lock, save and unlock of the episode record are     *)
(* attempted; an exception of any of them is swallowed, and LoadTranscript *)
(* or GetMediaLength ends with the session state and the result it has     *)
(* when the record is saved.                                               *)
(***************************************************************************)
\* The session a handler leaves, but for the episode object's length
SessionBut(s) ==
    <<Contents(s.TranscriptWindow), s.TranscriptNum, s.activeTranscript,
      [s.currentObj EXCEPT !.tape_length = 0], s.VideoFilename, s.VideoStartPoint,
      s.VideoEndPoint, s.VideoWindow, s.DataWindow, s.ret>>

\* The same of the state the step ends in
SessionButNext ==
    <<Contents(TranscriptWindow'), TranscriptNum', activeTranscript',
      [currentObj' EXCEPT !.tape_length = 0], VideoFilename', VideoStartPoint',
      VideoEndPoint', VideoWindow', DataWindow', last'.ret>>

\* What the handler of this step leaves when the database saves the record
WhenSaved ==
    IF last'.op = "GetMediaLength"
    THEN LET s == St("GetMediaLength", last'.a, 0, <<>>)
         IN [GetMediaLength(s, last'.a) EXCEPT !.ret = MediaLength(s, last'.a)]
    ELSE LoadTranscript(St("LoadTranscript", last'.a, last'.b, <<>>), 1, last'.a, last'.b = 1)

\* The step attempted to store the length
Attempted == Called(last', "lock_record")

\* C32 as stated: whatever the database answers, the handler ends as when it saves
C32_SameAsWhenSaved ==
    [][(last'.op \in {"LoadTranscript", "GetMediaLength"} /\ Attempted) =>
           /\ SessionButNext = SessionBut(WhenSaved)
           /\ currentObj'.tape_length = WhenSaved.currentObj.tape_length]_vars

\* C32: whatever the database answers, the handler ends as when it saves, except
\* that GetMediaLength leaves the object without a length when the lock is refused
C32_SameButLengthAfterRefusedLock ==
    [][(last'.op \in {"LoadTranscript", "GetMediaLength"} /\ Attempted) =>
           /\ SessionButNext = SessionBut(WhenSaved)
           /\ currentObj'.tape_length =
                  IF /\ last'.op = "GetMediaLength"
                     /\ CalledWith(last', "lock_record", "RecordLockedError")
                  THEN currentObj.tape_length
                  ELSE WhenSaved.currentObj.tape_length]_vars

\* GetMediaLength was refused the lock: the episode object still has no length
C32_Witness ==
    /\ last.op = "GetMediaLength"
    /\ CalledWith(last, "lock_record", "RecordLockedError")
    /\ currentObj.kind = "Episode"
    /\ currentObj.tape_length <= 0
    /\ VideoWindow.mediaLength > 0

(***************************************************************************)
(* C38.  Every lock_record on the episode record during the storing of the *)
(* length, in LoadTranscript and in GetMediaLength, is followed by         *)
(* unlock_record on the same record, also when db_save raises: the episode *)
(* record is never left locked.                                            *)
(***************************************************************************)
\* C38: a handler that locked the episode record has unlocked it when it returns
C38_LockReleased ==
    (/\ last.op \in {"LoadTranscript", "GetMediaLength"}
     /\ CalledWith(last, "lock_record", "ok")) =>
        /\ Called(last, "unlock_record")
        /\ ~EpisodeDB.RecordLock

(***************************************************************************)
(* The Transcript record: load and lock, with other users of the database  *)
(***************************************************************************)
NextLock ==
    \/ \E num \in 1..MaxRec : TranscriptLoad(num)
    \/ TranscriptLock
    \/ TranscriptUnlock
    \/ \E num \in 1..MaxRec : OtherUserSaves(num)
    \/ \E num \in 1..MaxRec : OtherUserDeletes(num)
    \/ \E num \in 1..MaxRec : OtherUserLocks(num)
    \/ \E num \in 1..MaxRec : OtherUserUnlocks(num)

SpecLock == InitAnyVersion /\ [][NextLock]_vars

\* The statements a call ran, by name
Statements(log) == {log[k].e : k \in 1..Len(log)}
\* The exception a call raised, "" when it returned
Raised(log) == IF log # <<>> /\ log[Len(log)].e = "raise" THEN log[Len(log)].x ELSE ""
\* Statement e1 ran, and before every statement e2
Before(log, e1, e2) ==
    /\ e1 \in Statements(log)
    /\ \A k \in 1..Len(log) : log[k].e = e2 => \E j \in 1..(k - 1) : log[j].e = e1

NextStore ==
    \/ \E num \in 1..MaxRec : TranscriptLoad(num)
    \/ \E id \in Ids, clip \in 0..1, text \in Texts : TranscriptNew(id, clip, text)
    \/ \E id \in Ids, text \in Texts : TranscriptEdit(id, text)
    \/ TranscriptLock
    \/ TranscriptUnlock
    \/ TranscriptSave

SpecStore == Init /\ [][NextStore]_vars

\* The other records of the table with the ID, episode, clip and sort order of obj
Namesakes(obj) ==
    {row \in Transcripts2 : /\ row.TranscriptID = obj.id
                            /\ row.EpisodeNum = obj.episode_num
                            /\ row.ClipNum = obj.clip_num
                            /\ row.SortOrder = obj.sort_order
                            /\ row.TranscriptNum # obj.number}

\* C34: db_save raises SaveError, runs no INSERT and no UPDATE and leaves number and
\* lastsavetime as they were, when the ID is empty on a transcript that is not a clip's,
\* when the text is longer than the limit, or when another record has the same ID,
\* episode, clip and sort order; a save of a new record that succeeds sets number to
\* the number the database assigned and lastsavetime to the time stamp it stored.
C34_SaveRefusesOrStores ==
    [][last'.op = "Transcript.db_save" =>
          LET obj == TranscriptObj
              log == last'.log
              refused == \/ obj.id = "" /\ obj.clip_num = 0
                         \/ Len(obj.text) > TextLimit
                         \/ Namesakes(obj) # {}
              written == Transcripts2' \ Transcripts2
          IN /\ refused =>
                  /\ Raised(log) = "SaveError"
                  /\ Statements(log) \cap {"INSERT", "UPDATE"} = {}
                  /\ Transcripts2' = Transcripts2
                  /\ TranscriptObj'.number = obj.number
                  /\ TranscriptObj'.lastsavetime = obj.lastsavetime
             /\ (obj.number = 0 /\ Raised(log) = "") =>
                  \E row \in written :
                      /\ written = {row}
                      /\ "INSERT" \in Statements(log)
                      /\ row.TranscriptNum \notin {r.TranscriptNum : r \in Transcripts2}
                      /\ row.LastSaveTime > SetMax({r.LastSaveTime : r \in Transcripts2})
                      /\ TranscriptObj'.number = row.TranscriptNum
                      /\ TranscriptObj'.lastsavetime = row.LastSaveTime
    ]_vars

\* A new transcript was saved: it has the number and the time stamp of its new row
C34_Witness ==
    /\ last.op = "Transcript.db_save"
    /\ last.a = 0
    /\ "INSERT" \in Statements(last.log)
    /\ TranscriptObj.number = 3
    /\ TranscriptObj.lastsavetime = 2
    /\ Cardinality(Transcripts2) = 3

(***************************************************************************)
(* GetTranscriptWithoutTimeCodes, pass by pass.  A loop that is running    *)
(* takes its next pass: weak fairness of the two loops.                    *)
(***************************************************************************)
NextTimeCodes ==
    \/ \E text \in RTFTexts : SetText(text)
    \/ GetTranscriptWithoutTimeCodes
    \/ TimeCodeLoop
    \/ TabLoop

SpecTimeCodes ==
    Init /\ [][NextTimeCodes]_vars /\ WF_vars(TimeCodeLoop) /\ WF_vars(TabLoop)

\* C40: GetTranscriptWithoutTimeCodes terminates for every text, also for one with a
\* time code marker that no '>' follows, and what it returns holds no time code
\* marker and no tab.  Termination is taken at its weakest here: the call comes to an
\* end, be it by running out of memory.
C40_ReturnsWithoutTimeCodes ==
    (newText.pc = "timecodes") ~>
        \/ newText.pc = "MemoryError"
        \/ /\ newText.pc = "returned"
           /\ \A k \in 1..Len(newText.text) : newText.text[k] \notin {"T", "B"}

\* What is returned, when the call returns, holds no marker and no tab
ReturnedClean ==
    newText.pc = "returned" =>
        \A k \in 1..Len(newText.text) : newText.text[k] \notin {"T", "B"}

\* A marker that no '>' follows is never taken out of the text
MarkerStays ==
    [][(/\ newText.pc = "timecodes"
        /\ Find(newText.text, "T", 0) # -1
        /\ Find(newText.text, ">", Find(newText.text, "T", 0)) = -1)
       => /\ newText'.pc \in {"timecodes", "MemoryError"}
          /\ Find(newText'.text, "T", 0) # -1
          /\ Find(newText'.text, ">", Find(newText'.text, "T", 0)) = -1
          /\ Len(newText'.text) >= Len(newText.text)]_vars

(***************************************************************************)
(* The two lists of the transcript windows                                 *)
(***************************************************************************)
\* C36: TranscriptWindow and TranscriptNum always have the same length: a window that
\* is registered gets its entry at the end of both lists, and a window that is closed
\* loses its entry at the same index of both.
C36_ListsInStep ==
    [][/\ Len(TranscriptWindow') = Len(TranscriptNum')
       /\ last'.op = "OpenAdditionalTranscript" =>
             /\ Len(TranscriptWindow') = Len(TranscriptWindow) + 1
             /\ TranscriptNum' = Append(TranscriptNum, TranscriptNum'[Len(TranscriptNum')])
             /\ \A k \in 1..Len(TranscriptWindow) :
                   TranscriptWindow'[k].tr = TranscriptWindow[k].tr
       /\ last'.op = "CloseAdditionalTranscript" =>
             /\ TranscriptNum' = DelAt(TranscriptNum, last'.a + 1)
             /\ \A k \in 1..Len(TranscriptWindow') :
                   TranscriptWindow'[k].tr = DelAt(TranscriptWindow, last'.a + 1)[k].tr
      ]_vars

\* The first of three windows, which show three transcripts, was closed
C36_Witness ==
    /\ last.op = "CloseAdditionalTranscript"
    /\ last.a = 0
    /\ Len(TranscriptWindow) = 2
    /\ Len(TranscriptNum) = 2
    /\ TranscriptNum[1] # TranscriptNum[2]
    /\ TranscriptNum[1] # 0

(***************************************************************************)
(* The snapshot of presentation mode and the windows at its exit           *)
(***************************************************************************)
\* C37: when UpdatePlayState(STOP) finds a snapshot (and no Play All Clips window),
\* the snapshot has exactly one geometry for every open transcript window, whatever
\* was opened or closed since the snapshot was taken: the restoration indexes no
\* window that is gone and leaves no open window out.
C37_SnapshotFitsWindows ==
    [][(/\ last'.op = "UpdatePlayState"
        /\ last'.a = "Stop"
        /\ WindowPositions # <<>>
        /\ ~PlayAllClipsWindow)
       => /\ Len(WindowPositions[4]) = Len(TranscriptWindow)
          /\ \A k \in 1..Len(last'.log) : last'.log[k].e # "IndexError"
          /\ \A k \in 1..Len(TranscriptWindow') :
                TranscriptWindow'[k].dims = WindowPositions[4][k]]_vars

(***************************************************************************)
(* The stored video points and the points pushed to the transport          *)
(***************************************************************************)
\* C39: after every operation the stored VideoStartPoint and VideoEndPoint are the
\* start and end points last pushed to the video transport, also after LoadTranscript
\* and LoadClipByNumber and on their paths with the media file missing.
C39_StoredPointsArePushed ==
    /\ VideoStartPoint = VideoWindow.start
    /\ VideoEndPoint = VideoWindow.end

(***************************************************************************)
(* The logon loop, pass by pass.  A loop that is running takes its next    *)
(* pass (the user answers the question): weak fairness of its steps.       *)
(***************************************************************************)
LogonStep ==
    \/ \E exists \in BOOLEAN, answer \in {"yes", "no"} : OnInitPass(exists, answer)
    \/ \E serverUp \in BOOLEAN : OnInitEnd(serverUp)
    \/ \E exists \in BOOLEAN, answer \in {"yes", "no"} : GetNewDatabasePass(exists, answer)
    \/ GetNewDatabaseEnd

NextLogon ==
    \/ \E connectionEstablished \in BOOLEAN : OnInitStart(connectionEstablished)
    \/ \E exists \in BOOLEAN, answer \in {"yes", "no"} : OnInitPass(exists, answer)
    \/ \E serverUp \in BOOLEAN : OnInitEnd(serverUp)
    \/ OpenAdditionalTranscriptOp(1)
    \/ \E mediaExists \in BOOLEAN : LoadTranscriptOp(1, 1, mediaExists)
    \/ GetNewDatabaseStart
    \/ \E exists \in BOOLEAN, answer \in {"yes", "no"} : GetNewDatabasePass(exists, answer)
    \/ GetNewDatabaseEnd

SpecLogon == InitAnyVersion /\ [][NextLogon]_vars /\ WF_vars(LogonStep)

\* The connection attempts of the logon, as positions of its log
Attempts(log) == {k \in 1..Len(log) : log[k] \in {"connected", "refused"}}

\* At most three attempts, none after one that succeeded and none after the answer No
LogonBounded(log) ==
    /\ Cardinality(Attempts(log)) <= 3
    /\ \A k \in Attempts(log) : \A j \in 1..(k - 1) : log[j] \notin {"connected", "no"}

\* With no attempt that succeeded, GetNewDatabase ends with OnFileExit and OnInit
\* returns False
LogonFailedExits(l) ==
    (l.pc = "done" /\ \A k \in 1..Len(l.log) : l.log[k] # "connected") =>
        /\ ~l.ret
        /\ l.proc = "GetNewDatabase" => l.log # <<>> /\ l.log[Len(l.log)] = "OnFileExit"

\* C35: the logon loop of GetNewDatabase and of OnInit ends, after at most three
\* connection attempts: it stops at the first that succeeds, makes no attempt after the
\* user answered No, and when none succeeded GetNewDatabase calls OnFileExit and OnInit
\* returns False.
C35_LogonEnds ==
    /\ [](LogonBounded(logon.log) /\ LogonFailedExits(logon))
    /\ (logon.pc = "loop") ~> (logon.pc = "done")

\* GetNewDatabase gave up after three attempts that failed
C35_Witness ==
    /\ logon.pc = "done"
    /\ logon.proc = "GetNewDatabase"
    /\ logon.log = <<"refused", "yes", "refused", "yes", "refused", "OnFileExit">>
    /\ ~logon.ret

====
